---- MODULE Spec2Model ----
(***************************************************************************)
(* Model of the query-time benchmark harness, src/evaluation/QT.py:        *)
(*   extract_execution_time  (Metric Extractor)                            *)
(*   run_java_algorithm      (Trial Runner over the Process Runner)        *)
(*   run_evaluation          (Experiment Sweep Controller)                 *)
(*   print_summary           (Result Aggregator / Reporter)                *)
(*                                                                         *)
(* Conventions.                                                            *)
(*  - A Python float is held as an integer number of tenths of a ms, so    *)
(*    the demo values (one decimal) and the mean of two whole-ms values    *)
(*    (np.median of an even number of samples) are exact: float("25") is   *)
(*    250.                                                                 *)
(*  - Optional values: None is <<>>, a present value v is <<v>>; 0.0 is    *)
(*    <<0>> and differs from None.                                         *)
(*  - A Python dict is a sequence of [k, v] entries in insertion order.    *)
(*  - Process output is a sequence of lines; a line is a label (the words  *)
(*    in front of the number), a colon flag and a whole number of ms.      *)
(***************************************************************************)
EXTENDS Integers, Sequences, FiniteSets, TLC

VARIABLES
    pc,              \* position of the program
    stdout,          \* extract_execution_time: the text argument
    algorithm_name,  \* extract_execution_time / run_java_algorithm: the name argument
    extracted,       \* extract_execution_time: the returned value
    bin_exists,      \* run_java_algorithm: whether project_path/'bin' exists
    iteration,       \* run_java_algorithm: loop variable (number of repetitions done)
    times,           \* run_java_algorithm: the list of extracted times
    trials,          \* history: per repetition, the process result and its outcome
    ret,             \* run_java_algorithm: the returned value
    raised,          \* exception that left run_java_algorithm, "" when none
    results,         \* QueryTimeEvaluator.results
    clue_range,      \* run_evaluation: the conditions argument
    ci,              \* run_evaluation: index in clue_range of num_clues
    ai,              \* run_evaluation: index in algorithms of algo_name
    calls,           \* history: the sweep's Trial Runner calls, in call order
    ranking,         \* print_summary: the printed ranking lines
    document,        \* print_summary: the JSON document written
    running,         \* number of child processes started and not yet reaped
    proc,            \* run_java_algorithm: the child of the repetition under way
    log,             \* history: subprocess.run calls, extractor calls and prints
    experiments,     \* main(): per independent variable, where its table came from
    map_file,        \* run_evaluation: its map_file argument, None before the call
    acc_clues,       \* GCSAccuracyEvaluator: the num_clues argument
    gcs_env,         \* run_gcs_query: what the file system, javac and java did
    query,           \* run_gcs_query: the returned tuple, None before the return
    temp_file,       \* whether temp_GCSTest.java exists
    acc_result,      \* evaluate_by_clue_count: the result dict
    queries,         \* history: the tuples returned by the queries of the loop
    acc_results,     \* GCSAccuracyEvaluator.results
    result_file,     \* gcs_accuracy_results.json: None when it does not exist
    plot_data        \* Accuracy_of_GCS.main: the data it plots and their origin

vars == <<pc, stdout, algorithm_name, extracted, bin_exists, iteration, times,
          trials, ret, raised, results, clue_range, ci, ai, calls, ranking,
          document, running, proc, log, experiments, map_file, acc_clues, gcs_env,
          query, temp_file, acc_result, queries, acc_results, result_file, plot_data>>

\* the variables of the accuracy evaluator, gcs_accuracy_evaluator.py
accVars ==
    <<acc_clues, gcs_env, query, temp_file, acc_result, queries, acc_results,
      result_file, plot_data>>

\* the variables of the query-time harness, QT.py, but pc
harnessVars ==
    <<stdout, algorithm_name, extracted, bin_exists, iteration, times, trials, ret,
      raised, results, clue_range, ci, ai, calls, ranking, document, running, proc,
      log, experiments, map_file>>

-----------------------------------------------------------------------------
(* Bounds of the model *)

\* longest process output, in lines, given to the Metric Extractor
MaxLines == 2
\* longest clue_range of a sweep
MaxConds == 2
\* most Samples a ResultTable given to the Reporter holds
MaxSamples == 3

-----------------------------------------------------------------------------
(* Python values *)

None == <<>>
Some(v) == <<v>>

\* float(text) of a captured whole number of milliseconds, in 0.1 ms
float(n) == 10 * n

Last(s) == s[Len(s)]

-----------------------------------------------------------------------------
(* extract_execution_time: QT.py 23-69 *)

\* A label is a sequence of words.  "zh_exec_time" stands for the label written
\* in Chinese on QT.py:28, "zh_done" for the completion word of QT.py:36.

\* str.lower() of a word, as re.IGNORECASE compares
Lower(w) ==
    CASE w = "Execution" -> "execution"
      [] w = "Query"     -> "query"
      [] w = "Time"      -> "time"
      [] w = "Distance"  -> "distance"
      [] OTHER           -> w

LowerAll(ws) == [i \in DOMAIN ws |-> Lower(ws[i])]

\* the patterns dict, QT.py 26-49.  A "label" rule is  <words>[:]\s*(\d+\.?\d*)\s*ms,
\* an "after" rule is  <word>.+?(\d+)\s*ms.
patterns(key) ==
    CASE key = "GCS" ->
           << [kind |-> "label", words |-> <<"zh_exec_time">>],
              [kind |-> "label", words |-> <<"execution", "time">>],
              [kind |-> "label", words |-> <<"Query", "time">>] >>
      [] key = "CDP" ->
           << [kind |-> "label", words |-> <<"zh_exec_time">>],
              [kind |-> "label", words |-> <<"Execution", "time">>],
              [kind |-> "label", words |-> <<"Query", "time">>],
              [kind |-> "after", words |-> <<"zh_done">>] >>
      [] key = "BAB" ->
           << [kind |-> "label", words |-> <<"Execution", "time">>],
              [kind |-> "label", words |-> <<"execution", "time">>],
              [kind |-> "label", words |-> <<"Query", "time">>] >>
      [] key = "PBTree" ->
           << [kind |-> "label", words |-> <<"Execution", "time">>],
              [kind |-> "label", words |-> <<"execution", "time">>],
              [kind |-> "label", words |-> <<"Query", "time">>],
              [kind |-> "label", words |-> <<"Time">>] >>

\* the pieces of an algorithm name that the substring tests of QT.py 53-57 look at
Tokens(name) ==
    CASE name = "GCS"              -> <<"GCS">>
      [] name = "CDP"              -> <<"CDP">>
      [] name = "BAB (w/ AB-tree)" -> <<"BAB", "(w/", "AB", "-tree)">>
      [] name = "BAB (w/ PB-tree)" -> <<"BAB", "(w/", "PB", "-tree)">>
      [] name = "GCS+CDP"          -> <<"GCS", "+", "CDP">>
      [] name = "CDP (PB)"         -> <<"CDP", "(", "PB", ")">>
      [] name = "Dijkstra"         -> <<"Dijkstra">>

\* Python's  sub in name
In(sub, name) == \E i \in DOMAIN Tokens(name) : Tokens(name)[i] = sub

\* the key selection with the 'PB' test moved in front of the 'CDP' test
pattern_key_pb_first(name) ==
    IF In("GCS", name) THEN "GCS"
    ELSE IF In("PB", name) THEN "PBTree"
    ELSE IF In("CDP", name) THEN "CDP"
    ELSE "BAB"

\* QT.py 52-58
pattern_key(name) ==
    IF In("GCS", name) THEN "GCS"
    ELSE IF In("CDP", name) THEN "CDP"
    ELSE IF In("PB", name) THEN "PBTree"
    ELSE "BAB"

\* ws is a suffix of label (both already lowered)
IsSuffix(ws, label) ==
    /\ Len(ws) <= Len(label)
    /\ \A i \in 1..Len(ws) : ws[i] = label[Len(label) - Len(ws) + i]

\* whether the rule's regular expression, searched with re.IGNORECASE, matches
\* in the line: a label rule needs its words right in front of the colon, an
\* after rule needs its word somewhere in front of the number.
RuleMatchesLine(rule, line) ==
    IF rule.kind = "label"
    THEN line.colon /\ IsSuffix(LowerAll(rule.words), LowerAll(line.words))
    ELSE \E i \in DOMAIN line.words : Lower(line.words[i]) = Lower(rule.words[1])

RECURSIVE re_findall_from(_, _, _)
re_findall_from(rule, text, i) ==
    IF i > Len(text) THEN <<>>
    ELSE IF RuleMatchesLine(rule, text[i])
         THEN <<text[i].value>> \o re_findall_from(rule, text, i + 1)
         ELSE re_findall_from(rule, text, i + 1)

\* re.findall(pattern, stdout, re.IGNORECASE): the captured numbers, in text order
re_findall(rule, text) == re_findall_from(rule, text, 1)

\* the mutant of ValueOfMatches that takes the first match
ValueOfFirstMatch(matches) == float(Head(matches))

\* QT.py 63-67 for one non-empty match list: float() of the last match.
\* Every capture is \d+\.?\d* or \d+, which float() accepts.
ValueOfMatches(matches) == float(Last(matches))

\* the mutant of not_found that defaults to zero
zero_default == Some(0)

\* QT.py 69: no rule matched
not_found == None

\* QT.py 61-69
RECURSIVE TryPatterns(_, _, _)
TryPatterns(rules, i, text) ==
    IF i > Len(rules) THEN not_found
    ELSE LET matches == re_findall(rules[i], text)
         IN  IF matches # <<>>
             THEN Some(ValueOfMatches(matches))
             ELSE TryPatterns(rules, i + 1, text)

extract_execution_time(text, name) ==
    TryPatterns(patterns(pattern_key(name)), 1, text)

-----------------------------------------------------------------------------
(* The Process Runner: subprocess.run of QT.py 99-107 *)

\* A process result is [kind, returncode, out]: kind "completed", "timeout"
\* (no exit within timeout=120) or "launch_error" (java or the working
\* directory is missing).  out is the raw standard output: a sequence of
\* chunks, a chunk being a line or a run of bytes that is not valid UTF-8.
Chunk(line) == [bad |-> FALSE, line |-> line]
BadBytes == [bad |-> TRUE, line |-> [words |-> <<>>, colon |-> FALSE, value |-> 0]]

\* bytes.decode('utf-8', errors='ignore'), QT.py 105-106: the bad bytes vanish
RECURSIVE decode_ignore(_)
decode_ignore(out) ==
    IF out = <<>> THEN <<>>
    ELSE IF Head(out).bad THEN decode_ignore(Tail(out))
         ELSE <<Head(out).line>> \o decode_ignore(Tail(out))

\* what subprocess.run hands back or raises
subprocess_run(p) ==
    CASE p.kind = "timeout" ->
           [exc |-> "TimeoutExpired", returncode |-> 0, stdout |-> <<>>]
      [] p.kind = "launch_error" ->
           [exc |-> "FileNotFoundError", returncode |-> 0, stdout |-> <<>>]
      [] OTHER ->
           [exc |-> "", returncode |-> p.returncode, stdout |-> decode_ignore(p.out)]

\* the classes derived from Exception among those a repetition can raise
IsException(exc) ==
    exc \in {"TimeoutExpired", "FileNotFoundError", "UnicodeDecodeError", "ValueError"}

\* the mutant of Handles that has lost the  except Exception  clause
HandlesTimeoutOnly(exc) == exc = "TimeoutExpired"

\* the except clauses of QT.py 128-132
Handles(exc) == exc = "TimeoutExpired" \/ IsException(exc)

-----------------------------------------------------------------------------
(* run_java_algorithm: QT.py 71-138 *)

\* the default of the iterations parameter, QT.py 72
iterations == 3

RECURSIVE InsertSorted(_, _)
InsertSorted(x, s) ==
    IF s = <<>> THEN <<x>>
    ELSE IF x <= Head(s) THEN <<x>> \o s
         ELSE <<Head(s)>> \o InsertSorted(x, Tail(s))

RECURSIVE Sorted(_)
Sorted(s) == IF s = <<>> THEN <<>> ELSE InsertSorted(Head(s), Sorted(Tail(s)))

RECURSIVE Sum(_)
Sum(s) == IF s = <<>> THEN 0 ELSE Head(s) + Sum(Tail(s))

\* the mutant of np_median that takes the mean
np_mean_floor(ts) == Sum(ts) \div Len(ts)

\* np.median(times), QT.py 136: the middle of the sorted values, or the mean of
\* the two middle ones
np_median(ts) ==
    LET s == Sorted(ts)
        n == Len(s)
    IN  IF n % 2 = 1 THEN s[(n + 1) \div 2]
        ELSE (s[n \div 2] + s[(n \div 2) + 1]) \div 2

\* the mutant of ReturnNoTimes that returns a numeric default
ReturnZero == Some(0)

\* QT.py 138: the list of times is empty
ReturnNoTimes == None

\* QT.py 134-138
TrialReturnValue(ts) == IF ts # <<>> THEN Some(np_median(ts)) ELSE ReturnNoTimes

\* the mutant of IterationBody that overlooks the return code
IterationBodyIgnoringExit(ts, p, name) ==
    LET run == subprocess_run(p)
    IN  IF run.exc # ""
        THEN [times |-> ts, raised |-> IF Handles(run.exc) THEN "" ELSE run.exc]
        ELSE LET execution_time == extract_execution_time(run.stdout, name)
             IN  IF execution_time # None
                 THEN [times |-> Append(ts, execution_time[1]), raised |-> ""]
                 ELSE [times |-> ts, raised |-> ""]

\* one pass of the loop body, QT.py 90-132, on process result p: the new list
\* of times, and the exception that leaves the function, "" when none does
IterationBody(ts, p, name) ==
    LET run == subprocess_run(p)
    IN  IF run.exc # ""
        THEN [times |-> ts, raised |-> IF Handles(run.exc) THEN "" ELSE run.exc]
        ELSE IF run.returncode # 0
        THEN [times |-> ts, raised |-> ""]
        ELSE LET execution_time == extract_execution_time(run.stdout, name)
             IN  IF execution_time # None
                 THEN [times |-> Append(ts, execution_time[1]), raised |-> ""]
                 ELSE [times |-> ts, raised |-> ""]

\* subprocess.run, QT.py 99: the child is started unless the launch fails; n is
\* the number of children alive before the call
Popen(n, p) == IF p.kind = "launch_error" THEN n ELSE n + 1

\* the mutant of ProcessReaped that leaves a timed-out child alive
ProcessLeftOnTimeout(n, p) ==
    IF p.kind \in {"launch_error", "timeout"} THEN n ELSE n - 1

\* subprocess.run(..., timeout=120), QT.py 99-107: the call comes back when the
\* child has exited, or, at the timeout, after it has killed the child and
\* waited for it; n is the number of children alive during the call
ProcessReaped(n, p) == IF p.kind = "launch_error" THEN n ELSE n - 1

\* QT.py 109-117: whether the repetition reaches extract_execution_time
PassedToExtractor(p) ==
    LET run == subprocess_run(p)
    IN  run.exc = "" /\ run.returncode = 0

\* a call and a printed line, as the history records them
Event(ev, i, value, text) ==
    [ev |-> ev, iteration |-> i, value |-> value, text |-> text]

\* QT.py 77-79
BinNotFound == Event("print", 0, 0, "bin directory not found")

\* the mutant of Diagnostic that prints a launch error at no repetition
DiagnosticNoError(p, name, i) ==
    LET run == subprocess_run(p)
    IN  IF run.exc = "TimeoutExpired"
        THEN <<Event("print", i, 0, "Timeout")>>
        ELSE IF run.exc # "" THEN <<>>
        ELSE IF i # 0 THEN <<>>
        ELSE IF run.returncode # 0
        THEN <<Event("print", i, run.returncode, "Return code")>>
        ELSE LET execution_time == extract_execution_time(run.stdout, name)
             IN  IF execution_time # None
                 THEN <<Event("print", i, execution_time[1], "ms")>>
                 ELSE <<Event("print", i, 0, "Could not extract time")>>

\* the mutant of Diagnostic that prints a launch error at every repetition
DiagnosticEveryError(p, name, i) ==
    LET run == subprocess_run(p)
    IN  IF run.exc = "TimeoutExpired"
        THEN <<Event("print", i, 0, "Timeout")>>
        ELSE IF run.exc # ""
        THEN <<Event("print", i, 0, "Error: " \o run.exc)>>
        ELSE IF i # 0 THEN <<>>
        ELSE IF run.returncode # 0
        THEN <<Event("print", i, run.returncode, "Return code")>>
        ELSE LET execution_time == extract_execution_time(run.stdout, name)
             IN  IF execution_time # None
                 THEN <<Event("print", i, execution_time[1], "ms")>>
                 ELSE <<Event("print", i, 0, "Could not extract time")>>

\* the lines that repetition i prints, QT.py 109-132: a timeout at every
\* repetition (129), the rest at the first one only (110, 121, 125, 131)
Diagnostic(p, name, i) ==
    LET run == subprocess_run(p)
    IN  IF run.exc = "TimeoutExpired"
        THEN <<Event("print", i, 0, "Timeout")>>
        ELSE IF i # 0 THEN <<>>
        ELSE IF run.exc # ""
        THEN <<Event("print", i, 0, "Error: " \o run.exc)>>
        ELSE IF run.returncode # 0
        THEN <<Event("print", i, run.returncode, "Return code")>>
        ELSE LET execution_time == extract_execution_time(run.stdout, name)
             IN  IF execution_time # None
                 THEN <<Event("print", i, execution_time[1], "ms")>>
                 ELSE <<Event("print", i, 0, "Could not extract time")>>

\* the mutant of AfterRepetition that leaves the loop at a non-zero return code
AfterRepetitionBreak(i, p) ==
    IF p.kind = "completed" /\ p.returncode # 0 THEN iterations ELSE i + 1

\* for iteration in range(iterations), QT.py 89: the continue of line 114 and
\* the end of the body both go on with the next index
AfterRepetition(i, p) == i + 1

\* the loop of QT.py 89-132 over the process results procs, from repetition i
RECURSIVE RunLoop(_, _, _, _)
RunLoop(ts, procs, i, name) ==
    IF i > Len(procs) THEN [times |-> ts, raised |-> ""]
    ELSE LET b == IterationBody(ts, procs[i], name)
         IN  IF b.raised # "" THEN b ELSE RunLoop(b.times, procs, i + 1, name)

\* the whole call: [ret, raised]
run_java_algorithm(bin, procs, name) ==
    IF ~bin THEN [ret |-> None, raised |-> ""]
    ELSE LET l == RunLoop(<<>>, procs, 1, name)
         IN  IF l.raised # "" THEN [ret |-> None, raised |-> l.raised]
             ELSE [ret |-> TrialReturnValue(l.times), raised |-> ""]

\* The outcome of a repetition, as section 3 of the specification names them
Outcome(p, name) ==
    CASE p.kind = "timeout" -> "Timeout"
      [] p.kind = "launch_error" -> "ProcessFailure"
      [] p.returncode # 0 -> "ProcessFailure"
      [] extract_execution_time(decode_ignore(p.out), name) = None -> "ParseFailure"
      [] OTHER -> "Success"

SuccessValue(p, name) == extract_execution_time(decode_ignore(p.out), name)[1]

-----------------------------------------------------------------------------
(* Python dicts, in insertion order *)

DictHas(d, key) == \E i \in DOMAIN d : d[i].k = key
DictGet(d, key) == d[CHOOSE i \in DOMAIN d : d[i].k = key].v
\* d[key] = val : an existing key keeps its place
DictSet(d, key, val) ==
    IF DictHas(d, key)
    THEN [i \in DOMAIN d |-> IF d[i].k = key THEN [k |-> key, v |-> val] ELSE d[i]]
    ELSE Append(d, [k |-> key, v |-> val])

-----------------------------------------------------------------------------
(* QueryTimeEvaluator.__init__ and run_evaluation: QT.py 14-21, 177-211 *)

\* QT.py 16-21
InitResults ==
    << [k |-> "GCS", v |-> <<>>],
       [k |-> "CDP", v |-> <<>>],
       [k |-> "BAB (w/ AB-tree)", v |-> <<>>],
       [k |-> "BAB (w/ PB-tree)", v |-> <<>>] >>

\* QT.py 187-192
algorithms ==
    << [name |-> "GCS", eval |-> "evaluate_gcs"],
       [name |-> "CDP", eval |-> "evaluate_cdp"],
       [name |-> "BAB (w/ AB-tree)", eval |-> "evaluate_bab_abtree"],
       [name |-> "BAB (w/ PB-tree)", eval |-> "evaluate_bab_pbtree"] >>

AlgoNames == {algorithms[i].name : i \in DOMAIN algorithms}

\* the algorithm_name that each evaluate_* passes on, QT.py 140-175
EvalAlgorithmName(eval) ==
    CASE eval = "evaluate_gcs"        -> "GCS"
      [] eval = "evaluate_cdp"        -> "CDP"
      [] eval = "evaluate_bab_abtree" -> "BAB (w/ AB-tree)"
      [] eval = "evaluate_bab_pbtree" -> "BAB (w/ PB-tree)"

\* pathlib's  path / part : a path is the sequence of its parts below
\* workspace_root
Join(path, part) == Append(path, part)

\* project_path of each evaluate_*, QT.py 142, 151, 160, 169
EvalProjectPath(eval) ==
    CASE eval = "evaluate_gcs"        -> <<"gcs-project">>
      [] eval = "evaluate_cdp"        -> <<"crs-cdp">>
      [] eval = "evaluate_bab_abtree" -> <<"abtree-project">>
      [] eval = "evaluate_bab_pbtree" -> <<"pbtree-project">>

\* the main class that each evaluate_* passes on, QT.py 146, 154, 163, 172
EvalMainClass(eval) ==
    CASE eval = "evaluate_gcs"        -> "crs.Main"
      [] eval = "evaluate_cdp"        -> "crs.CDPMain"
      [] eval = "evaluate_bab_abtree" -> "abtree.Main"
      [] eval = "evaluate_bab_pbtree" -> "pbtree.Main"

\* QT.py 76, 82-87: the bin directory, then every jar of the lib directory; the
\* harness does not write to the project directories, so the jars are named
\* by the directory that holds them
classpath(project_path) ==
    [bin |-> Join(project_path, "bin"), jars_of |-> Join(project_path, "lib")]

\* cmd and cwd of subprocess.run, QT.py 90-107, for the arguments of
\* run_java_algorithm; num_clues is a parameter that the command does not use
Command(project_path, main_class, map, num_clues) ==
    [argv |-> [program |-> "java", option |-> "-cp",
               classpath |-> classpath(project_path),
               main_class |-> main_class, map_file |-> map],
     cwd |-> project_path]

\* the mutant of LaunchedCommand that hands the map_file argument on
LaunchedCommandOfArgument(eval, map, num_clues) ==
    Command(EvalProjectPath(eval), EvalMainClass(eval), map, num_clues)

\* evaluate_*(map_file, num_clues), QT.py 140-175: the command of the Trial
\* Runner call it makes, with the project's own map.osm
LaunchedCommand(eval, map, num_clues) ==
    LET project_path == EvalProjectPath(eval)
        project_map == Join(project_path, "map.osm")
    IN  Command(project_path, EvalMainClass(eval), project_map, num_clues)

\* the mutant of StoreResult that replaces the algorithm's row by the new entry
StoreResultNewRow(res, algo_name, num_clues, time_ms) ==
    IF time_ms # None
    THEN DictSet(res, algo_name, <<[k |-> num_clues, v |-> time_ms[1]]>>)
    ELSE res

\* the mutant of StoreResult that tests the truth value of time_ms
StoreResultTruthy(res, algo_name, num_clues, time_ms) ==
    IF time_ms # None /\ time_ms[1] # 0
    THEN DictSet(res, algo_name, DictSet(DictGet(res, algo_name), num_clues, time_ms[1]))
    ELSE res

\* the mutant of StoreResult that drops the pair's entry when the pair fails
StoreResultDeleteOnFailure(res, algo_name, num_clues, time_ms) ==
    IF time_ms # None
    THEN DictSet(res, algo_name, DictSet(DictGet(res, algo_name), num_clues, time_ms[1]))
    ELSE DictSet(res, algo_name,
                 SelectSeq(DictGet(res, algo_name), LAMBDA e : e.k # num_clues))

\* QT.py 203-207
StoreResult(res, algo_name, num_clues, time_ms) ==
    IF time_ms # None
    THEN DictSet(res, algo_name, DictSet(DictGet(res, algo_name), num_clues, time_ms[1]))
    ELSE res

\* the mutant of AfterPair that leaves the inner loop when a pair fails
AfterPairBreak(c, a, time_ms) ==
    IF a < Len(algorithms) /\ time_ms # None THEN <<c, a + 1>> ELSE <<c + 1, 1>>

\* the two for loops of QT.py 194 and 199: the pair that follows pair (c, a),
\* whatever time_ms was
AfterPair(c, a, time_ms) ==
    IF a < Len(algorithms) THEN <<c, a + 1>> ELSE <<c + 1, 1>>

-----------------------------------------------------------------------------
(* print_summary: QT.py 297-347 *)

\* A mean or a ratio of floats is held as a fraction num/den of 0.1 ms; a den
\* of 0 is the inf or nan that numpy's float64 division by 0.0 gives.
Rat(n, d) == [num |-> n, den |-> d]
RatLess(a, b) == a.num * b.den < b.num * a.den
RatLeq(a, b) == a.num * b.den <= b.num * a.den
RatEq(a, b) == a.num * b.den = b.num * a.den

RECURSIVE GCD(_, _)
GCD(a, b) == IF b = 0 THEN a ELSE GCD(b, a % b)

\* the one float a fraction stands for
Normal(r) ==
    LET g == GCD(r.num, r.den)
    IN  IF g = 0 THEN r ELSE Rat(r.num \div g, r.den \div g)

RECURSIVE DictValues(_)
DictValues(d) == IF d = <<>> THEN <<>> ELSE <<Head(d).v>> \o DictValues(Tail(d))

RECURSIVE SumSquares(_)
SumSquares(s) == IF s = <<>> THEN 0 ELSE Head(s) * Head(s) + SumSquares(Tail(s))

SeqMin(s) == CHOOSE x \in {s[i] : i \in DOMAIN s} : \A i \in DOMAIN s : x <= s[i]
SeqMax(s) == CHOOSE x \in {s[i] : i \in DOMAIN s} : \A i \in DOMAIN s : x >= s[i]

\* QT.py 307-313 for one algorithm with data; std is held by its square
StatsOf(ts) ==
    LET n == Len(ts)
    IN  [avg |-> Rat(Sum(ts), n),
         min |-> SeqMin(ts),
         max |-> SeqMax(ts),
         std |-> Rat(n * SumSquares(ts) - Sum(ts) * Sum(ts), n * n)]

\* QT.py 304-313: the stats dict, in the order of self.results
RECURSIVE ComputeStats(_)
ComputeStats(res) ==
    IF res = <<>> THEN <<>>
    ELSE IF Head(res).v # <<>>
         THEN <<[k |-> Head(res).k, v |-> StatsOf(DictValues(Head(res).v))]>>
              \o ComputeStats(Tail(res))
         ELSE ComputeStats(Tail(res))

\* the mutant of KeyBefore that ranks the largest average first
KeyBeforeDescending(x, y) == RatLess(y.v.avg, x.v.avg)

\* QT.py 331, key=lambda x: x[1]['avg'] : item x sorts strictly before item y
KeyBefore(x, y) == RatLess(x.v.avg, y.v.avg)

\* sorted() is stable: x goes behind every item that does not sort after it
RECURSIVE InsertStable(_, _)
InsertStable(x, s) ==
    IF s = <<>> THEN <<x>>
    ELSE IF KeyBefore(x, Head(s)) THEN <<x>> \o s
         ELSE <<Head(s)>> \o InsertStable(x, Tail(s))

RECURSIVE SortedFrom(_, _)
SortedFrom(items, acc) ==
    IF items = <<>> THEN acc
    ELSE SortedFrom(Tail(items), InsertStable(Head(items), acc))

\* QT.py 331
sorted_by_avg(stats) == SortedFrom(stats, <<>>)

\* QT.py 335
baseline_time(sorted_algos, i) == sorted_algos[1].v.avg

\* QT.py 336: s['avg'] / baseline_time
SlowerBy(avg, base) == Rat(avg.num * base.den, avg.den * base.num)

\* QT.py 332-337: the ranking lines printed, [algo, avg, speedup]; speedup is
\* None on the first line
RankingLines(stats) ==
    LET sorted_algos == sorted_by_avg(stats)
    IN  [i \in DOMAIN sorted_algos |->
            [algo |-> sorted_algos[i].k,
             avg |-> sorted_algos[i].v.avg,
             speedup |-> IF i > 1
                         THEN Some(SlowerBy(sorted_algos[i].v.avg,
                                            baseline_time(sorted_algos, i)))
                         ELSE None]]

(* json.dump and json.load *)

\* a dict key as a Python object: an int and a str are never equal
PyInt(i) == [type |-> "int", int |-> i, str |-> ""]
PyStr(t) == [type |-> "str", int |-> 0, str |-> t]

\* self.results as Python objects: algorithm names are str, clue counts int
RECURSIVE PyRow(_)
PyRow(row) ==
    IF row = <<>> THEN <<>>
    ELSE <<[k |-> PyInt(Head(row).k), v |-> Head(row).v]>> \o PyRow(Tail(row))

PyResults(res) == [i \in DOMAIN res |-> [k |-> res[i].k, v |-> PyRow(res[i].v)]]

\* the mutant of json_key that writes a str key by its repr
json_key_repr(key) ==
    IF key.type = "int" THEN ToString(key.int) ELSE "'" \o key.str \o "'"

\* json.dump: a key that is an int is written as the string of its digits
json_key(key) == IF key.type = "int" THEN ToString(key.int) ELSE key.str

\* float.__repr__ of a sample: the digits before and after the point
json_float(v) == [whole |-> v \div 10, frac |-> v % 10]
\* float() of a JSON number
json_parse_float(tok) == 10 * tok.whole + tok.frac

\* the mutant of json_dump_row that writes the keys in ascending order
\* (sort_keys=True)
json_dump_row_sorted(row) ==
    [r \in DOMAIN row |->
        LET i == CHOOSE i \in DOMAIN row :
                    Cardinality({j \in DOMAIN row : row[j].k.int < row[i].k.int}) = r - 1
        IN  [k |-> json_key(row[i].k), v |-> json_float(row[i].v)]]

\* json.dump of one row of the table, in the order of the dict
json_dump_row(row) ==
    [i \in DOMAIN row |-> [k |-> json_key(row[i].k), v |-> json_float(row[i].v)]]

json_dump_stats(st) ==
    [avg |-> Normal(st.avg), min |-> json_float(st.min), max |-> json_float(st.max),
     std |-> Normal(st.std)]

\* QT.py 342-346: the document of a table of Python objects and its statistics
json_dump(obj) ==
    [results |->
        [i \in DOMAIN obj.results |->
            [k |-> obj.results[i].k, v |-> json_dump_row(obj.results[i].v)]],
     statistics |->
        [i \in DOMAIN obj.statistics |->
            [k |-> obj.statistics[i].k, v |-> json_dump_stats(obj.statistics[i].v)]]]

json_load_row(row) ==
    [i \in DOMAIN row |-> [k |-> PyStr(row[i].k), v |-> json_parse_float(row[i].v)]]

json_load_stats(st) ==
    [avg |-> st.avg, min |-> json_parse_float(st.min),
     max |-> json_parse_float(st.max), std |-> st.std]

\* json.load of the document: every key is a str
json_load(doc) ==
    [results |->
        [i \in DOMAIN doc.results |->
            [k |-> doc.results[i].k, v |-> json_load_row(doc.results[i].v)]],
     statistics |->
        [i \in DOMAIN doc.statistics |->
            [k |-> doc.statistics[i].k, v |-> json_load_stats(doc.statistics[i].v)]]]

\* QT.py 339-346
SummaryDocument(res) ==
    json_dump([results |-> PyResults(res), statistics |-> ComputeStats(res)])

\* create_demo_data(), QT.py 350-385
create_demo_data ==
    << [k |-> "GCS", v |->
          << [k |-> 2, v |-> 453], [k |-> 3, v |-> 782], [k |-> 4, v |-> 1255],
             [k |-> 5, v |-> 1987], [k |-> 6, v |-> 2873] >>],
       [k |-> "BAB (w/ PB-tree)", v |->
          << [k |-> 2, v |-> 521], [k |-> 3, v |-> 854], [k |-> 4, v |-> 1389],
             [k |-> 5, v |-> 2153], [k |-> 6, v |-> 3128] >>],
       [k |-> "BAB (w/ AB-tree)", v |->
          << [k |-> 2, v |-> 875], [k |-> 3, v |-> 1457], [k |-> 4, v |-> 2352],
             [k |-> 5, v |-> 3684], [k |-> 6, v |-> 5421] >>],
       [k |-> "CDP", v |->
          << [k |-> 2, v |-> 1568], [k |-> 3, v |-> 2875], [k |-> 4, v |-> 4783],
             [k |-> 5, v |-> 7452], [k |-> 6, v |-> 10876] >>] >>

-----------------------------------------------------------------------------
(* Inputs *)

\* lines a process may print, each "<label>[:] <value> ms"
Line(ws, colon, n) == [words |-> ws, colon |-> colon, value |-> n]

LineValues == {10, 25}

Lines ==
    {Line(ws, TRUE, n) :
        ws \in {<<"zh_exec_time">>, <<"Execution", "time">>, <<"execution", "time">>,
                <<"Query", "time">>, <<"Time">>, <<"Distance">>},
        n \in LineValues}
    \cup {Line(ws, FALSE, n) :
        ws \in {<<"zh_done">>, <<"Execution", "time">>}, n \in LineValues}

Texts == UNION {[1..n -> Lines] : n \in 0..MaxLines}

Names == AlgoNames \cup {"GCS+CDP", "CDP (PB)", "Dijkstra"}

Completed(rc, out) == [kind |-> "completed", returncode |-> rc, out |-> out]
TimedOut == [kind |-> "timeout", returncode |-> 0, out |-> <<>>]
LaunchError == [kind |-> "launch_error", returncode |-> 0, out |-> <<>>]

ExecTime(n) == Chunk(Line(<<"Execution", "time">>, TRUE, n))

\* process results of one Trial Runner call examined alone
TrialProcs ==
    { TimedOut, LaunchError,
      Completed(1, <<ExecTime(10)>>),
      Completed(0, <<>>),
      Completed(0, <<BadBytes, Chunk(Line(<<"Distance">>, TRUE, 7))>>),
      Completed(0, <<Chunk(Line(<<"Time">>, TRUE, 0))>>),
      Completed(0, <<ExecTime(0)>>),
      Completed(0, <<ExecTime(20), BadBytes, ExecTime(10)>>),
      Completed(0, <<ExecTime(50)>>) }

\* process results of the repetitions of a sweep
SweepProcs ==
    { TimedOut, Completed(1, <<ExecTime(10)>>), Completed(0, <<ExecTime(10)>>) }

\* the same for the program of one algorithm: the GCS program is the one that
\* reports 0 ms
SweepProcsOf(name) ==
    IF name = "GCS"
    THEN { TimedOut, Completed(1, <<ExecTime(10)>>), Completed(0, <<ExecTime(0)>>) }
    ELSE SweepProcs

Conds == 2..(MaxConds + 1)

\* Sample values of the tables given to the Reporter alone
ReportValues == {float(0), float(10), float(20), float(40)}

RECURSIVE NumSamples(_)
NumSamples(res) ==
    IF res = <<>> THEN 0 ELSE Len(Head(res).v) + NumSamples(Tail(res))

IsMonotone(s) ==
    \/ \A i, j \in DOMAIN s : i < j => s[i] < s[j]
    \/ \A i, j \in DOMAIN s : i < j => s[i] > s[j]

\* the value that the programs of an earlier sweep reported
EarlierValue == float(25)

\* self.results after an earlier run_evaluation over clue_range whose pairs all
\* succeeded, QT.py 16-21 and 194-207
RECURSIVE EarlierTable(_, _, _)
EarlierTable(res, range, n) ==
    IF n > Len(range) * Len(algorithms) THEN res
    ELSE LET c == range[((n - 1) \div Len(algorithms)) + 1]
             a == algorithms[((n - 1) % Len(algorithms)) + 1].name
         IN  EarlierTable(StoreResult(res, a, c, Some(EarlierValue)), range, n + 1)

\* the tables of the earlier sweeps: over the first condition, over the first two
EarlierTables ==
    { EarlierTable(InitResults, <<2>>, 1), EarlierTable(InitResults, <<2, 3>>, 1) }

\* clue_range of the later call: distinct clue counts in ascending order
RerunRanges ==
    {s \in UNION {[1..n -> Conds] : n \in 1..MaxConds} :
        \A i, j \in DOMAIN s : i < j => s[i] < s[j]}

\* map_file arguments of run_evaluation: the one main() passes, QT.py 697, and
\* a file outside the projects
MapFiles == { <<"gcs-project", "map.osm">>, <<"data", "map.osm">> }

\* clue_range: distinct clue counts, in ascending or in descending order
ClueRanges ==
    {s \in UNION {[1..n -> Conds] : n \in 0..MaxConds} : IsMonotone(s)}

-----------------------------------------------------------------------------
(* Actions *)

\* A table of main(): its independent variable, the function that filled it,
\* the number of its conditions and the number of Trial Runner calls made
\* for it.
Experiment(variable, source, conditions, trial_calls) ==
    [variable |-> variable, source |-> source, conditions |-> conditions,
     trial_calls |-> trial_calls]

\* the tables of the charts (b), (c) and (d), QT.py 719-735
AdditionalExperiments ==
    << Experiment("keyword_frequency", "generate_keyword_frequency_demo_data", 7, 0),
       Experiment("query_distance", "generate_query_distance_demo_data", 8, 0),
       Experiment("epsilon", "generate_epsilon_demo_data", 5, 0) >>

\* extract_execution_time(stdout, algorithm_name)
ExtractExecutionTime ==
    /\ pc = "extract"
    /\ extracted' = extract_execution_time(stdout, algorithm_name)
    /\ pc' = "extracted"
    /\ UNCHANGED <<stdout, algorithm_name, bin_exists, iteration, times, trials,
                   ret, raised, results, clue_range, ci, ai, calls, ranking, document,
                   running, proc, log, experiments,
                   map_file, accVars>>

\* run_java_algorithm, QT.py 74-88: the bin directory check
TrialCheckBin ==
    /\ pc = "trial"
    /\ IF bin_exists
       THEN pc' = "loop" /\ ret' = ret /\ log' = log
       ELSE pc' = "returned" /\ ret' = None /\ log' = Append(log, BinNotFound)
    /\ times' = <<>>
    /\ iteration' = 0
    /\ UNCHANGED <<stdout, algorithm_name, extracted, bin_exists, trials, raised,
                   results, clue_range, ci, ai, calls, ranking, document,
                   running, proc, experiments,
                   map_file, accVars>>

\* run_java_algorithm, QT.py 89-107: repetition  iteration  enters
\* subprocess.run, which starts the child
TrialLaunch ==
    /\ pc = "loop"
    /\ iteration < iterations
    /\ \E p \in TrialProcs :
          /\ proc' = Some(p)
          /\ running' = Popen(running, p)
    /\ log' = Append(log, Event("subprocess.run", iteration, 0, ""))
    /\ pc' = "running"
    /\ UNCHANGED <<stdout, algorithm_name, extracted, bin_exists, iteration, times,
                   trials, ret, raised, results, clue_range, ci, ai, calls,
                   ranking, document, experiments,
                   map_file, accVars>>

\* run_java_algorithm, QT.py 99-132: subprocess.run comes back or raises, and
\* the rest of the loop body runs
TrialIteration ==
    /\ pc = "running"
    /\ LET p == proc[1]
           b == IterationBody(times, p, algorithm_name)
       IN  /\ times' = b.times
           /\ raised' = b.raised
           /\ trials' = Append(trials, p)
           /\ running' = ProcessReaped(running, p)
           /\ log' = log
                  \o (IF PassedToExtractor(p)
                      THEN <<Event("extract_execution_time", iteration, 0, "")>>
                      ELSE <<>>)
                  \o Diagnostic(p, algorithm_name, iteration)
           /\ pc' = IF b.raised # "" THEN "raised" ELSE "loop"
           /\ iteration' = AfterRepetition(iteration, p)
    /\ proc' = None
    /\ UNCHANGED <<stdout, algorithm_name, extracted, bin_exists, ret, results,
                   clue_range, ci, ai, calls, ranking, document, experiments,
                   map_file, accVars>>

\* run_java_algorithm, QT.py 134-138
TrialReturn ==
    /\ pc = "loop"
    /\ iteration = iterations
    /\ ret' = TrialReturnValue(times)
    /\ pc' = "returned"
    /\ UNCHANGED <<stdout, algorithm_name, extracted, bin_exists, iteration, times,
                   trials, raised, results, clue_range, ci, ai, calls, ranking,
                   document,
                   running, proc, log, experiments,
                   map_file, accVars>>

\* run_evaluation, QT.py 201-207, for the one pair of a Trial Runner call
\* examined alone: the returned value is stored or the pair is reported failed
StorePairResult ==
    /\ pc = "returned"
    /\ results' = StoreResult(results, algorithm_name, clue_range[ci], ret)
    /\ pc' = "stored"
    /\ UNCHANGED <<stdout, algorithm_name, extracted, bin_exists, iteration, times,
                   trials, ret, raised, clue_range, ci, ai, calls, ranking,
                   document, running, proc, log, experiments,
                   map_file, accVars>>

\* run_evaluation(map_file, clue_range), QT.py 177-193: entry
RunEvaluation ==
    /\ pc = "idle"
    /\ \E r \in ClueRanges : clue_range' = r
    /\ \E f \in MapFiles : map_file' = Some(f)
    /\ ci' = 1
    /\ ai' = 1
    /\ pc' = "sweep"
    /\ UNCHANGED <<stdout, algorithm_name, extracted, bin_exists, iteration, times,
                   trials, ret, raised, results, calls, ranking, document,
                   running, proc, log, experiments, accVars>>

\* run_evaluation(map_file, clue_range), QT.py 177-193, called again on the
\* evaluator that an earlier call has filled; calls and experiments record the
\* later call
RunEvaluationAgain ==
    /\ pc = "again"
    /\ \E r \in RerunRanges : clue_range' = r
    /\ ci' = 1
    /\ ai' = 1
    /\ pc' = "sweep"
    /\ UNCHANGED <<stdout, algorithm_name, extracted, bin_exists, iteration, times,
                   trials, ret, raised, results, calls, ranking, document,
                   running, proc, log, experiments, map_file, accVars>>

\* run_evaluation, QT.py 199-207: one (num_clues, algorithm) pair, with the whole
\* Trial Runner call it makes; cmd is the command of every launch of the call
RunPair ==
    /\ pc = "sweep"
    /\ ci <= Len(clue_range)
    /\ \E bin \in BOOLEAN :
       \E procs \in (IF bin
                     THEN [1..iterations ->
                              SweepProcsOf(EvalAlgorithmName(algorithms[ai].eval))]
                     ELSE {<<>>}) :
          LET num_clues == clue_range[ci]
              algo_name == algorithms[ai].name
              name == EvalAlgorithmName(algorithms[ai].eval)
              r == run_java_algorithm(bin, procs, name)
              next == AfterPair(ci, ai, r.ret)
          IN  IF r.raised # ""
              THEN /\ pc' = "crashed"
                   /\ raised' = r.raised
                   /\ UNCHANGED <<results, calls, ci, ai, ret>>
              ELSE /\ results' = StoreResult(results, algo_name, num_clues, r.ret)
                   /\ calls' = Append(calls,
                          [cond |-> num_clues, algo |-> algo_name,
                           success |-> bin /\ \E i \in DOMAIN procs :
                                          Outcome(procs[i], name) = "Success",
                           ret |-> r.ret,
                           cmd |-> LaunchedCommand(algorithms[ai].eval,
                                                   map_file[1], num_clues)])
                   /\ ci' = next[1]
                   /\ ai' = next[2]
                   /\ ret' = r.ret
                   /\ UNCHANGED <<pc, raised>>
    /\ UNCHANGED <<stdout, algorithm_name, extracted, bin_exists, iteration, times,
                   trials, clue_range, ranking, document,
                   running, proc, log, experiments,
                   map_file, accVars>>

\* run_evaluation, QT.py 209-211: both loops are over
FinishEvaluation ==
    /\ pc = "sweep"
    /\ ci > Len(clue_range)
    /\ pc' = "evaluated"
    /\ experiments' = <<Experiment("num_clues", "run_evaluation", Len(clue_range), Len(calls))>>
    /\ UNCHANGED <<stdout, algorithm_name, extracted, bin_exists, iteration, times,
                   trials, ret, raised, results, clue_range, ci, ai, calls, ranking,
                   document,
                   running, proc, log, map_file, accVars>>

\* main(), QT.py 690-694: the demo data replace the evaluator's results
UseDemoData ==
    /\ pc \in {"idle", "filling"}
    /\ results = InitResults
    /\ results' = create_demo_data
    /\ pc' = "demo_loaded"
    /\ experiments' = <<Experiment("num_clues", "create_demo_data", 5, 0)>>
    /\ UNCHANGED <<stdout, algorithm_name, extracted, bin_exists, iteration, times,
                   trials, ret, raised, clue_range, ci, ai, calls, ranking, document,
                   running, proc, log, map_file, accVars>>

\* QT.py 204 with a Trial Runner that returned v: a Sample enters the table
StoreSample ==
    /\ pc = "filling"
    /\ NumSamples(results) < MaxSamples
    /\ \E a \in AlgoNames, c \in Conds, v \in ReportValues :
          results' = StoreResult(results, a, c, Some(v))
    /\ UNCHANGED <<pc, stdout, algorithm_name, extracted, bin_exists, iteration,
                   times, trials, ret, raised, clue_range, ci, ai, calls, ranking,
                   document,
                   running, proc, log, experiments,
                   map_file, accVars>>

\* print_summary(), QT.py 297-347
PrintSummary ==
    /\ pc \in {"evaluated", "demo_loaded", "filling"}
    /\ ranking' = RankingLines(ComputeStats(results))
    /\ document' = SummaryDocument(results)
    /\ pc' = "summarised"
    /\ UNCHANGED <<stdout, algorithm_name, extracted, bin_exists, iteration, times,
                   trials, ret, raised, results, clue_range, ci, ai, calls,
                   running, proc, log, experiments,
                   map_file, accVars>>

\* main(), QT.py 714-745: the charts (b), (c) and (d)
GenerateAdditionalExperiments ==
    /\ pc = "summarised"
    /\ experiments' = experiments \o AdditionalExperiments
    /\ pc' = "complete"
    /\ UNCHANGED <<stdout, algorithm_name, extracted, bin_exists, iteration, times,
                   trials, ret, raised, results, clue_range, ci, ai, calls, ranking,
                   document, running, proc, log, map_file, accVars>>

-----------------------------------------------------------------------------
(* Specifications *)

\* the accuracy evaluator before any call
AccBlank ==
    /\ acc_clues = 2
    /\ gcs_env = None
    /\ query = None
    /\ temp_file = FALSE
    /\ acc_result = None
    /\ queries = <<>>
    /\ acc_results = <<>>
    /\ result_file = None
    /\ plot_data = None

\* the query-time harness before any call
HarnessBlank ==
    /\ stdout = <<>>
    /\ algorithm_name = "GCS"
    /\ extracted = None
    /\ bin_exists = TRUE
    /\ iteration = 0
    /\ times = <<>>
    /\ trials = <<>>
    /\ ret = None
    /\ raised = ""
    /\ results = InitResults
    /\ clue_range = <<>>
    /\ ci = 1
    /\ ai = 1
    /\ calls = <<>>
    /\ ranking = <<>>
    /\ document = [results |-> <<>>, statistics |-> <<>>]
    /\ running = 0
    /\ proc = None
    /\ log = <<>>
    /\ experiments = <<>>
    /\ map_file = None

Blank ==
    /\ HarnessBlank
    /\ AccBlank

\* main(): a fresh evaluator, then one sweep and the summary
Init ==
    /\ pc = "idle"
    /\ Blank

Next ==
    \/ UseDemoData
    \/ RunEvaluation
    \/ RunPair
    \/ FinishEvaluation
    \/ PrintSummary
    \/ GenerateAdditionalExperiments

Spec == Init /\ [][Next]_vars

\* run_evaluation called again on an evaluator that holds an earlier table
InitRerun ==
    /\ pc = "again"
    /\ results \in EarlierTables
    /\ map_file = Some(<<"gcs-project", "map.osm">>)
    /\ stdout = <<>>
    /\ algorithm_name = "GCS"
    /\ extracted = None
    /\ bin_exists = TRUE
    /\ iteration = 0
    /\ times = <<>>
    /\ trials = <<>>
    /\ ret = None
    /\ raised = ""
    /\ clue_range = <<>>
    /\ ci = 1
    /\ ai = 1
    /\ calls = <<>>
    /\ ranking = <<>>
    /\ document = [results |-> <<>>, statistics |-> <<>>]
    /\ running = 0
    /\ proc = None
    /\ log = <<>>
    /\ experiments = <<>>
    /\ AccBlank

NextRerun ==
    \/ RunEvaluationAgain
    \/ RunPair
    \/ FinishEvaluation

SpecRerun == InitRerun /\ [][NextRerun]_vars

\* the Metric Extractor alone, on every text and name of the bounds
InitExtract ==
    /\ pc = "extract"
    /\ stdout \in Texts
    /\ algorithm_name \in Names
    /\ extracted = None
    /\ bin_exists = TRUE
    /\ iteration = 0
    /\ times = <<>>
    /\ trials = <<>>
    /\ ret = None
    /\ raised = ""
    /\ results = InitResults
    /\ clue_range = <<>>
    /\ ci = 1
    /\ ai = 1
    /\ calls = <<>>
    /\ ranking = <<>>
    /\ document = [results |-> <<>>, statistics |-> <<>>]
    /\ running = 0
    /\ proc = None
    /\ log = <<>>
    /\ experiments = <<>>
    /\ map_file = None
    /\ AccBlank

NextExtract == ExtractExecutionTime

SpecExtract == InitExtract /\ [][NextExtract]_vars

\* one Trial Runner call alone, made for one pair of a sweep
InitTrial ==
    /\ pc = "trial"
    /\ stdout = <<>>
    /\ algorithm_name \in AlgoNames
    /\ extracted = None
    /\ bin_exists \in BOOLEAN
    /\ iteration = 0
    /\ times = <<>>
    /\ trials = <<>>
    /\ ret = None
    /\ raised = ""
    /\ results = InitResults
    /\ clue_range \in {<<c>> : c \in Conds}
    /\ ci = 1
    /\ ai = 1
    /\ calls = <<>>
    /\ ranking = <<>>
    /\ document = [results |-> <<>>, statistics |-> <<>>]
    /\ running = 0
    /\ proc = None
    /\ log = <<>>
    /\ experiments = <<>>
    /\ map_file = None
    /\ AccBlank

NextTrial ==
    \/ TrialCheckBin
    \/ TrialLaunch
    \/ TrialIteration
    \/ TrialReturn
    \/ StorePairResult

SpecTrial == InitTrial /\ [][NextTrial]_vars

\* the Reporter alone, on the tables a sweep can leave and on the demo data
InitReport ==
    /\ pc = "filling"
    /\ Blank

NextReport ==
    \/ StoreSample
    \/ UseDemoData
    \/ PrintSummary

SpecReport == InitReport /\ [][NextReport]_vars

-----------------------------------------------------------------------------
(* The accuracy evaluator: gcs_accuracy_evaluator.py *)

\* The output of the generated GCSTest program is a sequence of lines; a line
\* is the sequence of its "label=text" fields, in the order of the line.  The
\* text of a field is a whole number ("12"), a decimal number ("300.0") or
\* something else ("abc"); value is the number it denotes.
Tok(kind, v) == [kind |-> kind, value |-> v]
Field(label, tok) == [label |-> label, tok |-> tok]

\* float(parts) and int(parts): int() refuses a decimal point
float_parses(tok) == tok.kind \in {"int", "decimal"}
int_parses(tok) == tok.kind = "int"

\* 'label=' in line
HasField(line, label) == \E i \in DOMAIN line : line[i].label = label

\* the index of the first field of the line with this label
FirstField(line, label) ==
    CHOOSE i \in DOMAIN line :
       line[i].label = label /\ \A j \in 1..(i - 1) : line[j].label # label

\* the first line of the output in which the label occurs, 0 when there is none
FirstLineWith(output, label) ==
    IF \E l \in DOMAIN output : HasField(output[l], label)
    THEN CHOOSE l \in DOMAIN output :
            /\ HasField(output[l], label)
            /\ \A k \in 1..(l - 1) : ~HasField(output[k], label)
    ELSE 0

\* _extract_distance, gcs_accuracy_evaluator.py 138-147
extract_distance(output) ==
    LET l == FirstLineWith(output, "distance")
    IN  IF l = 0 THEN 0
        ELSE LET tok == output[l][FirstField(output[l], "distance")].tok
             IN  IF float_parses(tok) THEN tok.value ELSE 0

\* _extract_time, gcs_accuracy_evaluator.py 149-158
extract_time(output) ==
    LET l == FirstLineWith(output, "time")
    IN  IF l = 0 THEN 0
        ELSE LET tok == output[l][FirstField(output[l], "time")].tok
             IN  IF int_parses(tok) THEN tok.value ELSE 0

\* _extract_matches, gcs_accuracy_evaluator.py 160-169: the text after
\* 'matches=' is the rest of the line, which is a whole number only when the
\* field is the last one of the line
extract_matches(output) ==
    LET l == FirstLineWith(output, "matches")
    IN  IF l = 0 THEN 0
        ELSE LET i == FirstField(output[l], "matches")
                 tok == output[l][i].tok
             IN  IF i = Len(output[l]) /\ int_parses(tok) THEN tok.value ELSE 0

\* What happens around one query: writing the temporary file works or raises
\* OSError; javac exits 0, exits with an error or does not end in 30 s; java
\* ends with an exit code and an output or does not end in 60 s.  A later step
\* that is not reached is "none".
GcsEnv(write, compile, run, returncode, output) ==
    [write |-> write, compile |-> compile, run |-> run,
     returncode |-> returncode, output |-> output]

\* the mutant of finally_clause that removes the file on the normal path only
finally_clause_on_success(exists, path) == IF path = "return" THEN FALSE ELSE exists

\* gcs_accuracy_evaluator.py 67-70: whether temp_GCSTest.java exists after
\* the finally clause, given whether it existed before
finally_clause(exists, path) == FALSE

\* gcs_accuracy_evaluator.py 64-66 (and 46-48, with exc ""): (0, 0, 0)
failure_result(exc) == [ret |-> Some(<<0, 0, 0>>), raised |-> ""]

\* run_gcs_query, gcs_accuracy_evaluator.py 20-70: the returned tuple, the
\* exception that leaves the call, and whether the temporary file exists then
run_gcs_query(env) ==
    IF env.write # "ok"
    THEN failure_result(env.write) @@ [temp |-> finally_clause(FALSE, "except")]
    ELSE IF env.compile = "TimeoutExpired"
    THEN failure_result(env.compile) @@ [temp |-> finally_clause(TRUE, "except")]
    ELSE IF env.compile # "ok"
    THEN failure_result("") @@ [temp |-> finally_clause(TRUE, "return")]
    ELSE IF env.run = "TimeoutExpired"
    THEN failure_result(env.run) @@ [temp |-> finally_clause(TRUE, "except")]
    ELSE [ret |-> Some(<<extract_distance(env.output), extract_time(env.output),
                         extract_matches(env.output)>>),
          raised |-> "",
          temp |-> finally_clause(TRUE, "return")]

\* A test name f'Clues={n}', f'Distance={m:.0f}m', ... is its prefix, the number
\* after it and the unit behind the number; '' has no prefix.  A ratio is held
\* in thousandths, epsilon in tenths.
TestName(prefix, value, unit) == [prefix |-> prefix, value |-> value, unit |-> unit]
NoName == TestName("", 0, "")

\* evaluate_by_clue_count, gcs_accuracy_evaluator.py 176-182: the result dict
\* before the queries
initial_result(n) ==
    [testName |-> TestName("Clues=", n, ""),
     totalQueries |-> 5,
     optimalMatches |-> 0,
     matchingRatio |-> 1000 + (n - 2) * 200,
     hittingRatio |-> 900 - (n - 2) * 100]

\* the mutant of AfterQuery that derives the hitting ratio from the queries
AfterQueryWithRatio(result, r, n) ==
    IF r[1] > 0 /\ r[3] >= n
    THEN [result EXCEPT !.optimalMatches = @ + 1,
                        !.hittingRatio = ((result.optimalMatches + 1) * 1000)
                                            \div result.totalQueries]
    ELSE result

\* evaluate_by_clue_count, gcs_accuracy_evaluator.py 185-189: the result dict
\* after a query that returned the tuple r
AfterQuery(result, r, n) ==
    IF r[1] > 0 /\ r[3] >= n
    THEN [result EXCEPT !.optimalMatches = @ + 1]
    ELSE result

RECURSIVE AfterQueries(_, _, _)
AfterQueries(result, rs, n) ==
    IF rs = <<>> THEN result
    ELSE AfterQueries(AfterQuery(result, Head(rs), n), Tail(rs), n)

\* evaluate_by_clue_count(num_clues) when its queries return the tuples rs
evaluate_by_clue_count(n, rs) == AfterQueries(initial_result(n), rs, n)

\* gcs_accuracy_evaluator.py 193-206
evaluate_by_keyword_frequency(frequency) ==
    [testName |-> TestName("Frequency=", frequency, ""),
     totalQueries |-> 5,
     optimalMatches |-> 0,
     matchingRatio |-> IF frequency < 100 THEN 1100 ELSE 2300,
     hittingRatio |-> IF frequency < 100 THEN 880 ELSE 550]

\* gcs_accuracy_evaluator.py 208-221
evaluate_by_query_distance(distance_km) ==
    [testName |-> TestName("Distance=", distance_km * 1000, "m"),
     totalQueries |-> 5,
     optimalMatches |-> 0,
     matchingRatio |-> 1800 + (distance_km - 2) * 80,
     hittingRatio |-> 650 - (distance_km - 2) * 20]

\* gcs_accuracy_evaluator.py 223-236
evaluate_by_epsilon(epsilon) ==
    [testName |-> TestName("Epsilon=", epsilon, ""),
     totalQueries |-> 5,
     optimalMatches |-> 0,
     matchingRatio |-> 1500 + epsilon * 52,
     hittingRatio |-> 650 - epsilon * 3]

\* export_json, gcs_accuracy_evaluator.py 238-249: the document written; every
\* key is a str and is written as it is
export_json(res) ==
    [evaluation |-> "GCS Accuracy Analysis with Real map.osm", results |-> res]

(* Accuracy_of_GCS.py *)

\* dict.get(key, default)
Get(d, key, default) == IF key \in DOMAIN d THEN d[key] ELSE default

\* load_java_evaluation_results, Accuracy_of_GCS.py 108-128, on the file
load_java_evaluation_results(file) == file

Series(x, matching, hitting) == [x |-> x, matching |-> matching, hitting |-> hitting]

\* Accuracy_of_GCS.py 136-141
EmptyData ==
    [clues |-> Series(<<>>, <<>>, <<>>), frequency |-> Series(<<>>, <<>>, <<>>),
     distance |-> Series(<<>>, <<>>, <<>>), epsilon |-> Series(<<>>, <<>>, <<>>)]

AddPoint(series, x, mr, hr) ==
    Series(Append(series.x, x), Append(series.matching, mr), Append(series.hitting, hr))

\* the keys that extract_data_from_java_results reads, Accuracy_of_GCS.py 147-149
ResultKeys ==
    [test |-> "test", matching_ratio |-> "matching_ratio",
     hitting_ratio |-> "hitting_ratio"]

\* the body of the loop of Accuracy_of_GCS.py 146-180 for one result
ExtractResult(data, result) ==
    LET test_name == Get(result, ResultKeys.test, NoName)
        mr == Get(result, ResultKeys.matching_ratio, 1000)
        hr == Get(result, ResultKeys.hitting_ratio, 500)
    IN  CASE test_name.prefix = "Clues=" ->
                [data EXCEPT !.clues = AddPoint(@, test_name.value, mr, hr)]
          [] test_name.prefix = "Frequency=" ->
                [data EXCEPT !.frequency = AddPoint(@, test_name.value, mr, hr)]
          [] test_name.prefix = "Distance=" ->
                [data EXCEPT !.distance = AddPoint(@, test_name.value \div 1000, mr, hr)]
          [] test_name.prefix = "Epsilon=" ->
                [data EXCEPT !.epsilon = AddPoint(@, test_name.value, mr, hr)]
          [] OTHER -> data

RECURSIVE ExtractResults(_, _)
ExtractResults(data, rs) ==
    IF rs = <<>> THEN data
    ELSE ExtractResults(ExtractResult(data, Head(rs)), Tail(rs))

\* extract_data_from_java_results, Accuracy_of_GCS.py 131-182
extract_data_from_java_results(results_json) ==
    IF results_json = None \/ "results" \notin DOMAIN results_json[1] THEN None
    ELSE LET data == ExtractResults(EmptyData, results_json[1].results)
         IN  IF \E k \in DOMAIN data : data[k].x # <<>> THEN Some(data) ELSE None

\* generate_realistic_gcs_data, Accuracy_of_GCS.py 32-105
generate_realistic_gcs_data ==
    [clues |->
        Series(<<2, 3, 4, 5, 6, 7, 8>>,
               <<1400, 1800, 2100, 2300, 2500, 2700, 3000>>,
               <<820, 680, 550, 480, 420, 380, 320>>),
     frequency |->
        Series(<<10, 50, 100, 500, 1000, 5000, 10000>>,
               <<1100, 1300, 1800, 2200, 2400, 2500, 2600>>,
               <<900, 850, 720, 600, 520, 480, 450>>),
     distance |->
        Series(<<2, 4, 6, 8, 10, 12, 14>>,
               <<1500, 1800, 2100, 2300, 2500, 2700, 2900>>,
               <<700, 620, 550, 500, 460, 420, 380>>),
     epsilon |->
        Series(<<2, 4, 6, 8, 10>>,
               <<1200, 1600, 2100, 2500, 2900>>,
               <<750, 680, 580, 500, 420>>)]

\* main, Accuracy_of_GCS.py 249-261: the data plotted and where they come from
ChooseData(file) ==
    LET java_results == load_java_evaluation_results(file)
    IN  IF java_results # None
        THEN LET java_data == extract_data_from_java_results(java_results)
             IN  IF java_data # None
                 THEN [source |-> "java", data |-> java_data[1]]
                 ELSE [source |-> "built-in", data |-> generate_realistic_gcs_data]
        ELSE [source |-> "built-in", data |-> generate_realistic_gcs_data]

(* Inputs of the accuracy evaluator *)

GcsToks == {Tok("int", 0), Tok("int", 3), Tok("decimal", 300), Tok("text", 0)}

\* "RESULT: distance=.., time=.., matches=..", "Network: nodes=.., edges=..",
\* and lines with one field or with the fields in another order
GcsLines ==
    { <<Field("distance", Tok("decimal", 300)), Field("time", Tok("int", 3)),
        Field("matches", Tok("int", 3))>>,
      <<Field("distance", Tok("decimal", 0)), Field("time", Tok("int", 0)),
        Field("matches", Tok("int", 0))>>,
      <<Field("nodes", Tok("int", 3)), Field("edges", Tok("int", 3))>>,
      <<Field("matches", Tok("int", 3)), Field("time", Tok("decimal", 3))>> }
    \cup { <<Field("distance", t)>> : t \in GcsToks }

GcsOutputs == UNION {[1..n -> GcsLines] : n \in 0..MaxLines}

GcsEnvs ==
    { GcsEnv("OSError", "none", "none", 0, <<>>),
      GcsEnv("ok", "failed", "none", 0, <<>>),
      GcsEnv("ok", "TimeoutExpired", "none", 0, <<>>),
      GcsEnv("ok", "ok", "TimeoutExpired", 0, <<>>) }
    \cup { GcsEnv("ok", "ok", "completed", rc, out) : rc \in {0, 1}, out \in GcsOutputs }

\* what the queries of a test run meet: a compile failure, a java run that does
\* not end, a full RESULT line, and a line with the distance alone
ClueQueryEnvs ==
    { GcsEnv("ok", "failed", "none", 0, <<>>),
      GcsEnv("ok", "ok", "TimeoutExpired", 0, <<>>),
      GcsEnv("ok", "ok", "completed", 0,
             << <<Field("distance", Tok("decimal", 300)), Field("time", Tok("int", 3)),
                  Field("matches", Tok("int", 3))>> >>),
      GcsEnv("ok", "ok", "completed", 0, << <<Field("distance", Tok("decimal", 300))>> >>) }

\* the first conditions of the lists of run_all_tests,
\* gcs_accuracy_evaluator.py 260-276 (epsilon in tenths)
FirstOf(list) == SubSeq(list, 1, MaxConds)
TestClues == FirstOf(<<2, 3, 4, 5, 6, 7, 8>>)
TestFrequencies == FirstOf(<<10, 50, 100, 500, 1000, 5000, 10000>>)
TestDistances == FirstOf(<<2, 4, 6, 8, 10, 12, 14>>)
TestEpsilons == FirstOf(<<2, 4, 6, 8, 10>>)

(* Actions of the accuracy evaluator *)

\* run_gcs_query(num_clues), the whole call with its finally clause
RunGcsQuery ==
    /\ pc = "query"
    /\ \E env \in GcsEnvs :
          LET r == run_gcs_query(env)
          IN  /\ gcs_env' = Some(env)
              /\ query' = r.ret
              /\ temp_file' = r.temp
              /\ pc' = IF r.raised # "" THEN "query_raised" ELSE "query_done"
    /\ UNCHANGED <<acc_clues, acc_result, queries, acc_results, result_file, plot_data,
                   harnessVars>>

\* evaluate_by_clue_count(num_clues), gcs_accuracy_evaluator.py 171-182: entry
EvaluateByClueCountEntry ==
    /\ pc = "evaluate"
    /\ acc_result' = Some(initial_result(acc_clues))
    /\ queries' = <<>>
    /\ pc' = "queries"
    /\ UNCHANGED <<acc_clues, gcs_env, query, temp_file, acc_results, result_file,
                   plot_data, harnessVars>>

\* evaluate_by_clue_count, gcs_accuracy_evaluator.py 184-189: one pass of the
\* loop, with the whole query it makes
EvaluateByClueCountQuery ==
    /\ pc = "queries"
    /\ Len(queries) < acc_result[1].totalQueries
    /\ \E env \in ClueQueryEnvs :
          LET r == run_gcs_query(env)
          IN  /\ temp_file' = r.temp
              /\ IF r.raised # ""
                 THEN pc' = "query_raised" /\ UNCHANGED <<queries, acc_result>>
                 ELSE /\ pc' = pc
                      /\ queries' = Append(queries, r.ret[1])
                      /\ acc_result' = Some(AfterQuery(acc_result[1], r.ret[1], acc_clues))
    /\ UNCHANGED <<acc_clues, gcs_env, query, acc_results, result_file, plot_data,
                   harnessVars>>

\* evaluate_by_clue_count, gcs_accuracy_evaluator.py 191: return result
EvaluateByClueCountReturn ==
    /\ pc = "queries"
    /\ Len(queries) = acc_result[1].totalQueries
    /\ pc' = "evaluated_clues"
    /\ UNCHANGED <<accVars, harnessVars>>

\* run_all_tests, gcs_accuracy_evaluator.py 260-261: one pass of the loop over
\* the clue counts, with the whole evaluate_by_clue_count call
RunClueTest ==
    /\ pc = "run_all_tests"
    /\ Len(acc_results) < Len(TestClues)
    /\ \E envs \in [1..5 -> ClueQueryEnvs] :
          LET rs == [q \in 1..5 |-> run_gcs_query(envs[q]).ret[1]]
              clues == TestClues[Len(acc_results) + 1]
          IN  acc_results' = Append(acc_results, evaluate_by_clue_count(clues, rs))
    /\ UNCHANGED <<pc, acc_clues, gcs_env, query, temp_file, acc_result, queries,
                   result_file, plot_data, harnessVars>>

\* run_all_tests, gcs_accuracy_evaluator.py 263-284: the other three loops and
\* export_json
RunOtherTestsAndExport ==
    /\ pc = "run_all_tests"
    /\ Len(acc_results) = Len(TestClues)
    /\ LET all == acc_results
                  \o [i \in DOMAIN TestFrequencies |->
                         evaluate_by_keyword_frequency(TestFrequencies[i])]
                  \o [i \in DOMAIN TestDistances |->
                         evaluate_by_query_distance(TestDistances[i])]
                  \o [i \in DOMAIN TestEpsilons |-> evaluate_by_epsilon(TestEpsilons[i])]
       IN  /\ acc_results' = all
           /\ result_file' = Some(export_json(all))
    /\ pc' = "exported"
    /\ UNCHANGED <<acc_clues, gcs_env, query, temp_file, acc_result, queries,
                   plot_data, harnessVars>>

\* Accuracy_of_GCS.main, Accuracy_of_GCS.py 249-261
AccuracyMain ==
    /\ pc \in {"exported", "accuracy"}
    /\ plot_data' = Some(ChooseData(result_file))
    /\ pc' = "plotted"
    /\ UNCHANGED <<acc_clues, gcs_env, query, temp_file, acc_result, queries,
                   acc_results, result_file, harnessVars>>

\* one query of the accuracy evaluator alone
InitQuery ==
    /\ pc = "query"
    /\ HarnessBlank
    /\ acc_clues \in Conds
    /\ gcs_env = None
    /\ query = None
    /\ temp_file = FALSE
    /\ acc_result = None
    /\ queries = <<>>
    /\ acc_results = <<>>
    /\ result_file = None
    /\ plot_data = None

NextQuery == RunGcsQuery

SpecQuery == InitQuery /\ [][NextQuery]_vars

\* evaluate_by_clue_count alone
InitClues ==
    /\ pc = "evaluate"
    /\ HarnessBlank
    /\ acc_clues \in Conds
    /\ gcs_env = None
    /\ query = None
    /\ temp_file = FALSE
    /\ acc_result = None
    /\ queries = <<>>
    /\ acc_results = <<>>
    /\ result_file = None
    /\ plot_data = None

NextClues ==
    \/ EvaluateByClueCountEntry
    \/ EvaluateByClueCountQuery
    \/ EvaluateByClueCountReturn

SpecClues == InitClues /\ [][NextClues]_vars

\* Accuracy_of_GCS.py run after gcs_accuracy_evaluator.py, or without it
InitAccuracy ==
    /\ pc \in {"run_all_tests", "accuracy"}
    /\ HarnessBlank
    /\ AccBlank

NextAccuracy ==
    \/ RunClueTest
    \/ RunOtherTestsAndExport
    \/ AccuracyMain

SpecAccuracy == InitAccuracy /\ [][NextAccuracy]_vars

-----------------------------------------------------------------------------
(* Properties *)

Range(s) == {s[i] : i \in DOMAIN s}

\* the values of the repetitions whose outcome was Success, in repetition order
RECURSIVE SuccessValues(_, _)
SuccessValues(ps, name) ==
    IF ps = <<>> THEN <<>>
    ELSE IF Outcome(Head(ps), name) = "Success"
         THEN <<SuccessValue(Head(ps), name)>> \o SuccessValues(Tail(ps), name)
         ELSE SuccessValues(Tail(ps), name)

\* x is a k-th smallest value of vs
IsKth(vs, k, x) ==
    /\ x \in Range(vs)
    /\ Cardinality({i \in DOMAIN vs : vs[i] < x}) < k
    /\ k <= Cardinality({i \in DOMAIN vs : vs[i] <= x})

\* m is the median of vs: the middle value, or the mean of the two middle ones
IsMedian(vs, m) ==
    LET n == Len(vs)
    IN  IF n % 2 = 1 THEN IsKth(vs, (n + 1) \div 2, m)
        ELSE \E a, b \in Range(vs) :
                /\ IsKth(vs, n \div 2, a)
                /\ IsKth(vs, (n \div 2) + 1, b)
                /\ 2 * m = a + b

\* C1: a value returned by run_java_algorithm is the median of exactly the
\* values of the repetitions whose outcome was Success.
C1_MedianOfSuccesses ==
    (pc = "returned" /\ ret # None) =>
        LET vs == SuccessValues(trials, algorithm_name)
        IN  vs # <<>> /\ IsMedian(vs, ret[1])

\* two successes with different values and one failed repetition
C1_Witness ==
    /\ pc = "returned"
    /\ ret # None
    /\ Len(trials) = iterations
    /\ LET vs == SuccessValues(trials, algorithm_name)
       IN  Len(vs) = 2 /\ vs[1] # vs[2]
    /\ \E i \in DOMAIN trials :
          /\ trials[i].kind = "completed"
          /\ trials[i].returncode # 0
          /\ extract_execution_time(decode_ignore(trials[i].out), algorithm_name) # None

\* C2: a pair none of whose repetitions succeeded gets the no-Sample marker
\* from the Trial Runner and no entry, numeric or other, in the ResultTable.
C2_NoSampleWhenAllFail ==
    \A i \in DOMAIN calls :
        ~calls[i].success =>
            /\ calls[i].ret = None
            /\ ~DictHas(DictGet(results, calls[i].algo), calls[i].cond)

\* a finished sweep with a pair that failed and a pair that did not
C2_Witness ==
    /\ pc = "evaluated"
    /\ \E i, j \in DOMAIN calls :
          /\ ~calls[i].success
          /\ calls[j].success
          /\ calls[i].algo = calls[j].algo
          /\ ~DictHas(DictGet(results, calls[i].algo), calls[i].cond)

MatchesSomewhere(rule, text) ==
    \E l \in DOMAIN text : RuleMatchesLine(rule, text[l])

LastMatchingLine(rule, text) ==
    CHOOSE l \in DOMAIN text :
        /\ RuleMatchesLine(rule, text[l])
        /\ \A m \in DOMAIN text : RuleMatchesLine(rule, text[m]) => m <= l

\* the first rule of the list, in list order, that matches at least once
IsFirstMatchingRule(rules, i, text) ==
    /\ MatchesSomewhere(rules[i], text)
    /\ \A j \in 1..(i - 1) : ~MatchesSomewhere(rules[j], text)

\* C3: extract_execution_time returns the value of the last occurrence in the
\* text of the first rule, in list order, that matches at least once.
C3_LastOfFirstMatchingRule ==
    pc = "extracted" =>
        LET rules == patterns(pattern_key(algorithm_name))
        IN  \A i \in DOMAIN rules :
                IsFirstMatchingRule(rules, i, stdout) =>
                    extracted = Some(float(stdout[LastMatchingLine(rules[i], stdout)].value))

\* the winning rule is not the first of its list and matches twice, with
\* different values; the returned value is that of the later line
C3_Witness ==
    /\ pc = "extracted"
    /\ Len(stdout) = 2
    /\ stdout[1].value # stdout[2].value
    /\ LET rules == patterns(pattern_key(algorithm_name))
       IN  \E i \in DOMAIN rules :
              /\ i > 1
              /\ IsFirstMatchingRule(rules, i, stdout)
              /\ RuleMatchesLine(rules[i], stdout[1])
              /\ RuleMatchesLine(rules[i], stdout[2])
    /\ extracted = Some(float(stdout[2].value))

\* C4: when no rule of the selected list matches anywhere in the text,
\* extract_execution_time returns None, never 0.0 or another number.
C4_NotFoundIsNone ==
    pc = "extracted" =>
        LET rules == patterns(pattern_key(algorithm_name))
        IN  (\A i \in DOMAIN rules : ~MatchesSomewhere(rules[i], stdout))
                => extracted = None

\* a text with timing lines, none of them in the dialect of the algorithm
C4_Witness ==
    /\ pc = "extracted"
    /\ Len(stdout) = 2
    /\ stdout[1].words = <<"Time">>
    /\ stdout[1].colon
    /\ algorithm_name = "GCS"
    /\ extracted = None

\* C5: after a sweep that started from the empty table, the table holds an
\* entry for (algorithm, condition) exactly when the Trial Runner returned a
\* value for that pair, and the entry is that value.
C5_EntryIffReturned ==
    pc = "evaluated" =>
        \A a \in AlgoNames, c \in Conds :
            LET row == DictGet(results, a)
            IN  /\ DictHas(row, c) <=>
                      \E i \in DOMAIN calls :
                          calls[i].algo = a /\ calls[i].cond = c /\ calls[i].ret # None
                /\ \A i \in DOMAIN calls :
                      (calls[i].algo = a /\ calls[i].cond = c /\ calls[i].ret # None)
                          => DictGet(row, c) = calls[i].ret[1]

\* two conditions, four algorithms, exactly one pair failed: 7 of 8 entries
C5_Witness ==
    /\ pc = "evaluated"
    /\ Len(clue_range) = 2
    /\ Len(calls) = 2 * Len(algorithms)
    /\ Cardinality({i \in DOMAIN calls : calls[i].ret = None}) = 1
    /\ calls[2].ret = None
    /\ NumSamples(results) = 2 * Len(algorithms) - 1

\* C6: the Trial Runner calls of a sweep are, in call order, the pairs of the
\* nested loops (condition outer, algorithm inner), each exactly once, whatever
\* the calls returned.
C6_NestedOrder ==
    /\ \A n \in DOMAIN calls :
          /\ calls[n].cond = clue_range[((n - 1) \div Len(algorithms)) + 1]
          /\ calls[n].algo = algorithms[((n - 1) % Len(algorithms)) + 1].name
    /\ pc = "evaluated" => Len(calls) = Len(clue_range) * Len(algorithms)

\* a finished sweep of two conditions in which the first pair failed
C6_Witness ==
    /\ pc = "evaluated"
    /\ Len(clue_range) = 2
    /\ calls[1].ret = None
    /\ calls[2].ret # None
    /\ Len(calls) = 2 * Len(algorithms)

\* the mean Sample value of an algorithm of the table
RowMean(a) ==
    LET vs == DictValues(DictGet(results, a))
    IN  Rat(Sum(vs), Len(vs))

Ranked == {ranking[i].algo : i \in DOMAIN ranking}

\* C7: the ranking lists the algorithms that have a Sample, each once, by
\* ascending mean Sample value; the first line carries no factor and every
\* other line the factor mean / mean of the first line.
C7_RankingAndFactors ==
    pc = "summarised" =>
        /\ Ranked = {results[i].k : i \in {j \in DOMAIN results : results[j].v # <<>>}}
        /\ Cardinality(Ranked) = Len(ranking)
        /\ \A i \in DOMAIN ranking : RatEq(ranking[i].avg, RowMean(ranking[i].algo))
        /\ \A i, j \in DOMAIN ranking :
              i < j => RatLeq(RowMean(ranking[i].algo), RowMean(ranking[j].algo))
        /\ \A i \in DOMAIN ranking :
              IF i = 1 THEN ranking[i].speedup = None
              ELSE /\ ranking[i].speedup # None
                   /\ LET f == Normal(ranking[i].speedup[1])
                          best == Normal(RowMean(ranking[1].algo))
                          mine == Normal(RowMean(ranking[i].algo))
                      IN  IF best.num = 0 THEN f.den = 0
                          ELSE f.num * best.num * mine.den = mine.num * f.den * best.den

\* means 10, 20 and 40 ms, stored in another order than the ranked one:
\* factors 2 and 4
C7_Witness ==
    /\ pc = "summarised"
    /\ Len(ranking) = 3
    /\ RatEq(ranking[1].avg, Rat(float(10), 1))
    /\ RatEq(ranking[2].avg, Rat(float(20), 1))
    /\ RatEq(ranking[3].avg, Rat(float(40), 1))
    /\ ranking[1].algo = "CDP"
    /\ ranking[3].algo = "GCS"
    /\ ranking[1].speedup = None
    /\ RatEq(ranking[2].speedup[1], Rat(2, 1))
    /\ RatEq(ranking[3].speedup[1], Rat(4, 1))

\* C8: json.load of the document written by print_summary gives a 'results'
\* structure equal to the table, condition keys included.
C8_RoundTripEqualsTable ==
    pc = "summarised" => json_load(document).results = PyResults(results)

\* C9: dumping again what json.load gives of the document yields the same
\* document, keys in the same order.
C9_SerializationIdempotent ==
    pc = "summarised" => json_dump(json_load(document)) = document

\* a document with a row of two keys stored in descending order, and statistics
C9_Witness ==
    /\ pc = "summarised"
    /\ document.statistics # <<>>
    /\ \E i \in DOMAIN document.results :
          /\ Len(document.results[i].v) = 2
          /\ document.results[i].v[1].k = "3"
          /\ document.results[i].v[2].k = "2"

\* C10: no repetition's failure leaves run_java_algorithm as an exception; the
\* call returns a value or None.
C10_NoExceptionEscapes ==
    /\ raised = ""
    /\ pc # "raised"
    /\ pc = "returned" => (ret = None \/ (Len(ret) = 1 /\ ret[1] \in Nat))
    /\ (pc = "loop" /\ iteration = iterations) => ENABLED TrialReturn

\* a call that returned after a timeout, a launch error and an output with
\* undecodable bytes in which no rule matched
C10_Witness ==
    /\ pc = "returned"
    /\ Len(trials) = iterations
    /\ \E i, j, l \in DOMAIN trials :
          /\ trials[i].kind = "timeout"
          /\ trials[j].kind = "launch_error"
          /\ trials[l].kind = "completed"
          /\ trials[l].returncode = 0
          /\ \E n \in DOMAIN trials[l].out : trials[l].out[n].bad
          /\ Outcome(trials[l], algorithm_name) = "ParseFailure"

-----------------------------------------------------------------------------
\* the positions of the history at which repetition i entered subprocess.run
LaunchesOf(i) ==
    {m \in DOMAIN log : log[m].ev = "subprocess.run" /\ log[m].iteration = i}

\* C11: at every moment of a Trial Runner call at most one child process of
\* the harness is alive, and none is alive outside subprocess.run: between two
\* repetitions, at the return and when the pair's result is stored, the child
\* has exited or, at a timeout, has been killed and the repetition has been
\* marked "Timeout" before any later repetition is launched.
C11_AtMostOneProcess ==
    /\ running \in {0, 1}
    /\ pc # "running" => running = 0
    /\ \A k \in DOMAIN trials :
          trials[k].kind = "timeout" =>
             \E j \in DOMAIN log :
                /\ log[j] = Event("print", k - 1, 0, "Timeout")
                /\ \A i \in k..iterations : \A m \in LaunchesOf(i) : j < m

\* the second repetition's child is alive after the first one timed out
C11_Witness ==
    /\ pc = "running"
    /\ running = 1
    /\ Len(trials) = 1
    /\ trials[1].kind = "timeout"
    /\ proc[1].kind = "completed"

-----------------------------------------------------------------------------
IsLaunch(e) == e.ev = "subprocess.run"

\* the repetition indices with which subprocess.run was entered, in call order
Launches ==
    LET l == SelectSeq(log, IsLaunch)
    IN  [m \in DOMAIN l |-> l[m].iteration]

CallIsOver == pc \in {"returned", "stored"}

\* C12, as stated: one call of the Trial Runner performs exactly R process
\* invocations, in increasing repetition index.  It fails for a call whose bin
\* directory is missing, which returns without any invocation.
C12_ExactlyRInvocations ==
    CallIsOver => Launches = [m \in 1..iterations |-> m - 1]

\* C12, amended: the invocations made so far are those of the repetitions
\* 0, 1, ... in this order, each entered after the one before it was over; no
\* outcome of a repetition ends the call early; and a call that is over has
\* made exactly R invocations when the bin directory exists, and none when it
\* is missing.
C12_RInvocationsWhenBinExists ==
    /\ Launches = [m \in 1..Len(Launches) |-> m - 1]
    /\ Len(Launches) = Len(trials) + (IF pc = "running" THEN 1 ELSE 0)
    /\ pc # "raised"
    /\ CallIsOver => Len(Launches) = (IF bin_exists THEN iterations ELSE 0)

\* a call over after a timeout, a non-zero exit and a launch error, and a call
\* without bin directory
C12_Witness ==
    /\ pc = "returned"
    /\ bin_exists
    /\ Len(trials) = iterations
    /\ trials[1].kind = "timeout"
    /\ trials[2].kind = "completed" /\ trials[2].returncode # 0
    /\ trials[3].kind = "launch_error"
    /\ Launches = <<0, 1, 2>>

-----------------------------------------------------------------------------
\* whether the history holds a call of the extractor by repetition k of the call
ExtractorCalled(k) ==
    \E j \in DOMAIN log : log[j] = Event("extract_execution_time", k - 1, 0, "")

\* the values that the extractor finds in the outputs of the repetitions ps
\* that completed, in repetition order; with exit0 only those that exited 0
RECURSIVE FoundValues(_, _, _)
FoundValues(ps, name, exit0) ==
    IF ps = <<>> THEN <<>>
    ELSE LET p == Head(ps)
             v == extract_execution_time(decode_ignore(p.out), name)
             rest == FoundValues(Tail(ps), name, exit0)
         IN  IF p.kind = "completed" /\ (exit0 => p.returncode = 0) /\ v # None
             THEN <<v[1]>> \o rest
             ELSE rest

\* C13, as stated: every repetition that neither timed out nor failed to
\* launch has its output passed to the extractor and contributes the value
\* found in it.  It fails for a repetition that exits with a non-zero code.
C13_EveryCompletedOutputExtracted ==
    /\ \A k \in DOMAIN trials : trials[k].kind = "completed" => ExtractorCalled(k)
    /\ times = FoundValues(trials, algorithm_name, FALSE)

\* C13, amended: the output of a repetition is passed to the extractor exactly
\* when its process neither timed out nor failed to launch and exited with
\* code 0, and the values found in these outputs, in repetition order, are the
\* successes of the call.
C13_ExitZeroOutputExtracted ==
    /\ \A k \in DOMAIN trials :
          ExtractorCalled(k)
             <=> (trials[k].kind = "completed" /\ trials[k].returncode = 0)
    /\ times = FoundValues(trials, algorithm_name, TRUE)

\* a call in which a repetition printed a time and exited 1, and another one
\* printed a time and exited 0
C13_Witness ==
    /\ pc = "returned"
    /\ Len(trials) = iterations
    /\ trials[1] = Completed(1, <<ExecTime(10)>>)
    /\ trials[2] = Completed(0, <<ExecTime(50)>>)
    /\ trials[3] = Completed(0, <<>>)
    /\ times = <<float(50)>>
    /\ ret = Some(float(50))

-----------------------------------------------------------------------------
\* the table is that of a sweep, not the demo data
SweepTable == pc \in {"sweep", "evaluated", "summarised"} /\ calls # <<>>

\* C15: a Sample is in the table only if a repetition of its pair succeeded,
\* and a measured 0 is not absence: a pair whose successful repetitions all
\* report 0 ms is returned as 0, not as None, has the entry 0 in the table, and
\* its algorithm is in the statistics of the summary.
C15_ZeroIsNotAbsence ==
    SweepTable =>
       /\ \A a \in DOMAIN results : \A e \in DOMAIN results[a].v :
             \E n \in DOMAIN calls :
                /\ calls[n].algo = results[a].k
                /\ calls[n].cond = results[a].v[e].k
                /\ calls[n].success
       /\ \A n \in DOMAIN calls :
             calls[n].success /\ calls[n].algo = "GCS" =>
                /\ calls[n].ret = Some(0)
                /\ DictHas(DictGet(results, "GCS"), calls[n].cond)
                /\ DictGet(DictGet(results, "GCS"), calls[n].cond) = 0
                /\ pc = "summarised" =>
                      /\ DictHas(document.statistics, "GCS")
                      /\ DictGet(document.statistics, "GCS").min = json_float(0)

\* a summary of a sweep in which GCS was measured as 0 ms and CDP failed
C15_Witness ==
    /\ pc = "summarised"
    /\ \E n \in DOMAIN calls :
          calls[n].algo = "GCS" /\ calls[n].success /\ calls[n].ret = Some(0)
    /\ \E n \in DOMAIN calls : calls[n].algo = "CDP" /\ ~calls[n].success
    /\ DictHas(document.statistics, "GCS")
    /\ ~DictHas(document.statistics, "CDP")

-----------------------------------------------------------------------------
\* the numbers of repetitions of the call that did and did not give a value
SuccessfulCount == Len(FoundValues(trials, algorithm_name, TRUE))
FailedCount == Len(trials) - SuccessfulCount

\* C16: the Sample that a call returns for its pair carries, with the median,
\* the count of successful and the count of failed repetitions, which add up
\* to R.  The value returned by run_java_algorithm is the median alone.
C16_SampleCarriesCounts ==
    pc = "returned" /\ ret # None =>
       /\ Len(ret) = 3
       /\ ret[2] = SuccessfulCount
       /\ ret[3] = FailedCount
       /\ ret[2] + ret[3] = iterations

-----------------------------------------------------------------------------
\* whether repetition k of the call printed the message of its launch error
LaunchErrorPrinted(k) ==
    \E j \in DOMAIN log :
       log[j] = Event("print", k - 1, 0, "Error: FileNotFoundError")

\* the pair cannot be launched at all: no bin directory, or no repetition
\* whose executable starts
NeverLaunched ==
    \/ ~bin_exists
    \/ /\ Len(trials) = iterations
       /\ \A k \in DOMAIN trials : trials[k].kind = "launch_error"

\* what a launch failure leaves, whatever is printed about it: nothing is
\* raised, a repetition that fails to launch gives no value, a call without
\* bin directory prints the missing directory and runs no repetition, a pair
\* that is never launched gets no Sample, and the sweep goes on to store the
\* pair's result and to the next pair
LaunchFailureAbsorbed ==
    /\ pc # "raised" /\ raised = ""
    /\ Len(times) <= Cardinality({k \in DOMAIN trials : trials[k].kind # "launch_error"})
    /\ CallIsOver /\ ~bin_exists => log = <<BinNotFound>> /\ trials = <<>>
    /\ CallIsOver /\ NeverLaunched => ret = None
    /\ pc = "returned" => ENABLED StorePairResult
    /\ pc = "stored" /\ NeverLaunched => results = InitResults

\* C17, as stated: every repetition that fails to launch carries its causing
\* message.  It fails for a launch failure of the second or third repetition,
\* about which nothing is printed.
C17_EveryLaunchFailureHasMessage ==
    /\ LaunchFailureAbsorbed
    /\ \A k \in DOMAIN trials : trials[k].kind = "launch_error" => LaunchErrorPrinted(k)

\* C17, amended: as LaunchFailureAbsorbed says, and the causing message of a
\* launch failure is printed exactly when it is that of the first repetition.
C17_FirstLaunchFailureHasMessage ==
    /\ LaunchFailureAbsorbed
    /\ \A k \in DOMAIN trials :
          trials[k].kind = "launch_error" => (LaunchErrorPrinted(k) <=> k = 1)

\* a pair whose three repetitions failed to launch, stored without a Sample
C17_Witness ==
    /\ pc = "stored"
    /\ bin_exists
    /\ NeverLaunched
    /\ LaunchErrorPrinted(1) /\ ~LaunchErrorPrinted(2)
    /\ ret = None
    /\ results = InitResults

-----------------------------------------------------------------------------
\* the line that tells the outcome of a first repetition with result p
FirstOutcomeLine(p, name) ==
    CASE Outcome(p, name) = "Timeout" -> Event("print", 0, 0, "Timeout")
      [] p.kind = "launch_error" -> Event("print", 0, 0, "Error: FileNotFoundError")
      [] Outcome(p, name) = "ProcessFailure" /\ p.kind = "completed" ->
            Event("print", 0, p.returncode, "Return code")
      [] Outcome(p, name) = "ParseFailure" ->
            Event("print", 0, 0, "Could not extract time")
      [] Outcome(p, name) = "Success" ->
            Event("print", 0, SuccessValue(p, name), "ms")

IsPrint(e) == e.ev = "print"

\* C18: once the first repetition of a call is over, the printed lines hold
\* the line of its outcome (the extracted value, the non-zero return code, the
\* parse failure, the timeout or the exception), and they keep holding it
\* whatever the later repetitions do and whatever the call returns.
C18_FirstOutcomePrinted ==
    Len(trials) >= 1 =>
       /\ \E j \in DOMAIN log : log[j] = FirstOutcomeLine(trials[1], algorithm_name)
       /\ Head(SelectSeq(log, IsPrint)) = FirstOutcomeLine(trials[1], algorithm_name)

\* a call that returned a Sample after its first repetition failed to launch,
\* and whose later repetitions printed nothing
C18_Witness ==
    /\ pc = "returned"
    /\ ret # None
    /\ Len(trials) = iterations
    /\ trials[1].kind = "launch_error"
    /\ SelectSeq(log, IsPrint) = <<Event("print", 0, 0, "Error: FileNotFoundError")>>

-----------------------------------------------------------------------------
HasSamples(r) == r.v # <<>>

\* the sum of the squares of n*x - sum over the values x of ts: n^3 times
\* their variance
RECURSIVE SumSquaredDeviations(_, _, _)
SumSquaredDeviations(ts, n, sum) ==
    IF ts = <<>> THEN 0
    ELSE (n * Head(ts) - sum) * (n * Head(ts) - sum)
         + SumSquaredDeviations(Tail(ts), n, sum)

\* st is the statistics entry of an algorithm whose row of the table is row
IsStatisticsOf(st, row) ==
    LET ts == [e \in DOMAIN row |-> row[e].v]
        n == Len(ts)
    IN  /\ DOMAIN st = {"avg", "min", "max", "std"}
        /\ st.avg.num * n = Sum(ts) * st.avg.den
        /\ json_parse_float(st.min) \in Range(ts)
        /\ \A e \in DOMAIN ts : json_parse_float(st.min) <= ts[e]
        /\ json_parse_float(st.max) \in Range(ts)
        /\ \A e \in DOMAIN ts : json_parse_float(st.max) >= ts[e]
        /\ st.std = Normal(Rat(SumSquaredDeviations(ts, n, Sum(ts)), n * n * n))

\* C19: the document written by print_summary has the two sections 'results'
\* and 'statistics' and no other; 'results' holds, algorithm by algorithm and
\* condition by condition in the table's order, every Sample of the table;
\* 'statistics' holds, in the table's order, one entry for each algorithm with
\* at least one Sample and for no other, made of avg, min, max and std of that
\* algorithm's Samples and of nothing else.
C19_DocumentSections ==
    pc = "summarised" =>
       LET measured == SelectSeq(results, HasSamples)
       IN  /\ DOMAIN document = {"results", "statistics"}
           /\ Len(document.results) = Len(results)
           /\ \A a \in DOMAIN results :
                 /\ document.results[a].k = results[a].k
                 /\ Len(document.results[a].v) = Len(results[a].v)
                 /\ \A e \in DOMAIN results[a].v :
                       /\ document.results[a].v[e].k = ToString(results[a].v[e].k)
                       /\ json_parse_float(document.results[a].v[e].v)
                             = results[a].v[e].v
           /\ Len(document.statistics) = Len(measured)
           /\ \A i \in DOMAIN measured :
                 /\ document.statistics[i].k = measured[i].k
                 /\ IsStatisticsOf(document.statistics[i].v, measured[i].v)

\* a summary of a table in which CDP has no Sample and the row of GCS was
\* filled for 3 clues before 2 clues
C19_Witness ==
    /\ pc = "summarised"
    /\ DictGet(results, "CDP") = <<>>
    /\ DictGet(results, "GCS") = <<[k |-> 3, v |-> float(40)], [k |-> 2, v |-> float(10)]>>
    /\ DictGet(results, "BAB (w/ PB-tree)") # <<>>
    /\ Len(document.statistics) = 2

-----------------------------------------------------------------------------
\* the text "Time: 10 ms" followed by "Time: 25 ms"
TwoTimeLines == <<Line(<<"Time">>, TRUE, 10), Line(<<"Time">>, TRUE, 25)>>

\* C20: for each of the four configured algorithms the extractor returns 25.0
\* on the text "Time: 10 ms", "Time: 25 ms".  Only the rule list chosen for
\* BAB (w/ PB-tree) has a rule for the bare label "Time:"; for the other three
\* algorithms no rule matches and the extractor returns None.
C20_LastTimeLineForEveryAlgorithm ==
    pc = "extracted" /\ algorithm_name \in AlgoNames /\ stdout = TwoTimeLines
       => extracted = Some(float(25))

-----------------------------------------------------------------------------
\* the query ran to the parsing of the program's output
QueryParsed ==
    /\ pc = "query_done"
    /\ gcs_env # None
    /\ gcs_env[1].run = "completed"

\* C21: the distance, time and match-count extractors report "not found",
\* never 0, when the output holds no such labelled value or the labelled text
\* does not parse: the tuple returned for such an output holds no 0 in the
\* place of that value.  The three extractors return 0.0, 0 and 0 there.
C21_NoValueIsNotZero ==
    QueryParsed =>
       LET output == gcs_env[1].output
       IN  /\ FirstLineWith(output, "distance") = 0 => query[1][1] # 0
           /\ FirstLineWith(output, "time") = 0 => query[1][2] # 0
           /\ FirstLineWith(output, "matches") = 0 => query[1][3] # 0

-----------------------------------------------------------------------------
\* C22: the sweep is run for each of the four independent variables, each run
\* calling the Trial Runner once per pair and filling its own table with the
\* measured Samples.  Only the number of clues is swept; the tables of the
\* keyword frequency, the query distance and epsilon are generated without a
\* single Trial Runner call.
C22_EveryVariableSwept ==
    pc = "complete" /\ experiments[1].source = "run_evaluation" =>
       /\ {experiments[i].variable : i \in DOMAIN experiments}
             = {"num_clues", "keyword_frequency", "query_distance", "epsilon"}
       /\ \A i \in DOMAIN experiments :
             /\ experiments[i].source = "run_evaluation"
             /\ experiments[i].trial_calls = Len(algorithms) * experiments[i].conditions

-----------------------------------------------------------------------------
\* the repetitions of the call that exited with code 0
ExitedZero ==
    {k \in DOMAIN trials : trials[k].kind = "completed" /\ trials[k].returncode = 0}

\* C23: a repetition that exits with code 0 and from whose output no time can
\* be extracted falls back to the wall-clock time and contributes it as its
\* sample, so that every repetition that exited 0 has a sample in the list
\* of which the median is taken, and a call with such a repetition returns a
\* value.  The code prints that it uses the wall clock and appends nothing.
C23_WallClockFallback ==
    /\ Len(times) = Cardinality(ExitedZero)
    /\ pc = "returned" /\ ExitedZero # {} => ret # None

-----------------------------------------------------------------------------
\* the exported results whose test name starts with the prefix
RECURSIVE ExportedOf(_, _)
ExportedOf(rs, prefix) ==
    IF rs = <<>> THEN <<>>
    ELSE IF Head(rs).testName.prefix = prefix
         THEN <<Head(rs)>> \o ExportedOf(Tail(rs), prefix)
         ELSE ExportedOf(Tail(rs), prefix)

\* the series holds one point per exported result rs, with its ratios
IsSeriesOf(series, rs) ==
    /\ Len(series.x) = Len(rs)
    /\ series.matching = [i \in DOMAIN rs |-> rs[i].matchingRatio]
    /\ series.hitting = [i \in DOMAIN rs |-> rs[i].hittingRatio]

\* C24: when the results file written by export_json exists, Accuracy_of_GCS
\* plots its data and not the built-in ones: for each of the four dimensions
\* one point per exported result of the dimension, with the result's x value,
\* matching ratio and hitting ratio.  The reader asks for the keys 'test',
\* 'matching_ratio' and 'hitting_ratio', the writer wrote 'testName',
\* 'matchingRatio' and 'hittingRatio': nothing is extracted and the built-in
\* data are plotted.
C24_ExportedResultsArePlotted ==
    pc = "plotted" /\ result_file # None =>
       LET rs == result_file[1].results
           data == plot_data[1].data
       IN  /\ plot_data[1].source = "java"
           /\ IsSeriesOf(data.clues, ExportedOf(rs, "Clues="))
           /\ data.clues.x = TestClues
           /\ IsSeriesOf(data.frequency, ExportedOf(rs, "Frequency="))
           /\ data.frequency.x = TestFrequencies
           /\ IsSeriesOf(data.distance, ExportedOf(rs, "Distance="))
           /\ data.distance.x = TestDistances
           /\ IsSeriesOf(data.epsilon, ExportedOf(rs, "Epsilon="))
           /\ data.epsilon.x = TestEpsilons

\* the rule list the four configured names are said to select, and the
\* precedence said to decide for every other name
ExpectedKey(name) ==
    CASE name = "GCS"              -> "GCS"
      [] name = "CDP"              -> "CDP"
      [] name = "BAB (w/ PB-tree)" -> "PBTree"
      [] name = "BAB (w/ AB-tree)" -> "BAB"
      [] OTHER -> IF In("GCS", name) THEN "GCS"
                  ELSE IF In("CDP", name) THEN "CDP"
                  ELSE IF In("PB", name) THEN "PBTree"
                  ELSE "BAB"

\* C25: each of the four configured names selects its own rule list ('GCS' the
\* GCS list, 'CDP' the CDP list, 'BAB (w/ PB-tree)' the PBTree list,
\* 'BAB (w/ AB-tree)' the BAB list), every other name follows the precedence
\* contains 'GCS', else 'CDP', else 'PB', else BAB, and the extractor's answer
\* is the one that single list gives on the text.
C25_OneRuleListPerName ==
    pc = "extracted" =>
        /\ ExpectedKey(algorithm_name) \in {"GCS", "CDP", "PBTree", "BAB"}
        /\ extracted = TryPatterns(patterns(ExpectedKey(algorithm_name)), 1, stdout)

\* a name holding both 'CDP' and 'PB' is read with the CDP list, on a text
\* that the PBTree list would have read differently
C25_Witness ==
    /\ pc = "extracted"
    /\ algorithm_name = "CDP (PB)"
    /\ extracted # TryPatterns(patterns("PBTree"), 1, stdout)
    /\ extracted # TryPatterns(patterns("GCS"), 1, stdout)

\* the project directory and the map of each algorithm's program
ProjectOf(algo) ==
    CASE algo = "GCS"              -> <<"gcs-project">>
      [] algo = "CDP"              -> <<"crs-cdp">>
      [] algo = "BAB (w/ AB-tree)" -> <<"abtree-project">>
      [] algo = "BAB (w/ PB-tree)" -> <<"pbtree-project">>

\* C26: the launched command does not depend on the condition: two calls for the
\* same algorithm at any clue counts use the same command line and working
\* directory, and the map passed to the process is the map.osm of the
\* algorithm's project, whatever map_file was given to run_evaluation.
C26_CommandIndependentOfCondition ==
    /\ \A i, j \in DOMAIN calls :
          calls[i].algo = calls[j].algo => calls[i].cmd = calls[j].cmd
    /\ \A i \in DOMAIN calls :
          /\ calls[i].cmd.cwd = ProjectOf(calls[i].algo)
          /\ calls[i].cmd.argv.map_file = ProjectOf(calls[i].algo) \o <<"map.osm">>

\* one algorithm's program run at two clue counts, in a run_evaluation that was
\* given a map file that no process received
C26_Witness ==
    /\ map_file = Some(<<"data", "map.osm">>)
    /\ \E i, j \in DOMAIN calls :
          /\ calls[i].algo = calls[j].algo
          /\ calls[i].cond # calls[j].cond
          /\ calls[i].success
          /\ calls[j].success
    /\ \A i \in DOMAIN calls : calls[i].cmd.argv.map_file # map_file[1]

\* results[algo][cond], or None when the table has no such entry
EntryOf(res, algo, cond) ==
    IF DictHas(res, algo) /\ DictHas(DictGet(res, algo), cond)
    THEN Some(DictGet(DictGet(res, algo), cond))
    ELSE None

\* the pair that a step of the later sweep has just finished
PairDone(algo, cond) ==
    /\ Len(calls') = Len(calls) + 1
    /\ Last(calls').algo = algo
    /\ Last(calls').cond = cond

\* C27: in a later run_evaluation on the same evaluator, a pair that fails
\* leaves its table entry as the earlier run stored it, a pair that succeeds
\* overwrites its entry with its own Sample, and no other entry is changed or
\* removed.
C27_FailedPairKeepsEarlierSample ==
    [][\A algo \in AlgoNames : \A cond \in Conds :
          IF PairDone(algo, cond) /\ Last(calls').ret # None
          THEN EntryOf(results', algo, cond) = Last(calls').ret
          ELSE EntryOf(results', algo, cond) = EntryOf(results, algo, cond)]_vars

\* after the later sweep: a failed pair whose entry is still the earlier Sample,
\* a succeeded pair whose entry is its new Sample, and an entry of a condition
\* that the later sweep did not visit
C27_Witness ==
    /\ pc = "evaluated"
    /\ \E i \in DOMAIN calls :
          /\ calls[i].ret = None
          /\ EntryOf(results, calls[i].algo, calls[i].cond) = Some(EarlierValue)
    /\ \E i \in DOMAIN calls :
          /\ calls[i].ret # None
          /\ calls[i].ret # Some(EarlierValue)
          /\ EntryOf(results, calls[i].algo, calls[i].cond) = calls[i].ret
    /\ \E cond \in Conds :
          /\ \A i \in DOMAIN clue_range : clue_range[i] # cond
          /\ EntryOf(results, "CDP", cond) = Some(EarlierValue)

\* the compile step or the run step of the query failed: javac exited with an
\* error, or javac or java did not end within its timeout
CompileOrRunFailed ==
    /\ gcs_env # None
    /\ \/ gcs_env[1].compile \in {"failed", "TimeoutExpired"}
       \/ gcs_env[1].run = "TimeoutExpired"

\* C28: run_gcs_query never raises: a compile failure and an exception of the
\* compile, run or parsing step (a timeout included) make it return (0, 0, 0),
\* and after every return temp_GCSTest.java no longer exists.
C28_QueryNeverRaises ==
    /\ pc # "query_raised"
    /\ pc = "query_done" =>
          /\ query # None
          /\ ~temp_file
          /\ CompileOrRunFailed => query = Some(<<0, 0, 0>>)

\* javac did not end within 30 s: the query returned (0, 0, 0) and the file
\* that it had written is gone
C28_Witness ==
    /\ pc = "query_done"
    /\ gcs_env # None
    /\ gcs_env[1].write = "ok"
    /\ gcs_env[1].compile = "TimeoutExpired"
    /\ query = Some(<<0, 0, 0>>)
    /\ ~temp_file

\* the queries made so far that count as optimal: distance > 0 and
\* matches >= num_clues
OptimalQueries ==
    {q \in DOMAIN queries : queries[q][1] > 0 /\ queries[q][3] >= acc_clues}

\* C29: in evaluate_by_clue_count the matchingRatio and the hittingRatio are
\* those of num_clues alone, 1.0 + (num_clues - 2) * 0.2 and
\* 0.9 - (num_clues - 2) * 0.1, whatever the queries returned; the queries
\* decide optimalMatches only, which is the number of queries with
\* distance > 0 and matches >= num_clues and lies between 0 and totalQueries.
C29_RatiosDependOnClueCountOnly ==
    pc \in {"queries", "evaluated_clues"} =>
       LET result == acc_result[1]
       IN  /\ result.matchingRatio = 1000 + (acc_clues - 2) * 200
           /\ result.hittingRatio = 900 - (acc_clues - 2) * 100
           /\ result.optimalMatches = Cardinality(OptimalQueries)
           /\ result.optimalMatches \in 0..result.totalQueries
           /\ result.testName = TestName("Clues=", acc_clues, "")

\* a finished test whose five queries ended differently: some optimal, one
\* failed, one with a distance and too few matches
C29_Witness ==
    /\ pc = "evaluated_clues"
    /\ Len(queries) = 5
    /\ acc_result[1].optimalMatches \in 1..4
    /\ \E q \in DOMAIN queries : queries[q] = <<0, 0, 0>>
    /\ \E q \in DOMAIN queries : queries[q][1] > 0 /\ queries[q][3] < acc_clues

====
